---- MODULE Spec2Model ----
(***************************************************************************)
(* Connection core of the Cigarettes peer-to-peer chat: one P2PConnection  *)
(* instance, its threads (UI caller, accept loop, receive loops, renewal   *)
(* monitors, legacy reconnection threads) and the remote endpoints it      *)
(* talks to over TCP.                                                      *)
(*                                                                         *)
(* The repository holds three generations of the core.  The variable       *)
(* `variant` fixes, for a whole behaviour, which one is running:           *)
(*   "legacy"  src/connection.py with known_hosts_manager.py               *)
(*   "mono"    src/src/network/connection.py (the class console_ui uses)   *)
(*   "mixin"   src/src/network/connection_base.py composed with the mixins *)
(*             connection_peer / _handshake / _message / _io; every method *)
(*             name resolves to the one mixin that defines it.             *)
(*                                                                         *)
(* Granularity: a thread's step runs from one blocking call (accept,       *)
(* connect, recv, sleep) to the next.  join(timeout=...) never waits for a *)
(* state change in the model: the joined thread may or may not have ended. *)
(***************************************************************************)
EXTENDS Naturals, Sequences, FiniteSets, TLC

\* ------------------------------------------------------------ bounds
MaxConns == 2      \* sockets (inbound and outbound) created in one behaviour
MaxTrig == 1       \* legacy _trigger_reconnection threads started in one behaviour
MaxCount == 1      \* chat messages counted in one behaviour
MaxPayload == 2    \* bytes of a payload handed to _send_raw
MaxFrames == 3     \* frames the peer sends, and payloads the commands send, in one session
MaxClock == 1      \* milliseconds that pass in one session
MaxPings == 2      \* calls of ping_peer in one session

\* ------------------------------------------------- program constants
RENEW_AFTER_MESSAGES == 10000
RENEW_AFTER_MINUTES == 60

Variants == {"legacy", "mono", "mixin"}
Conns == 1..MaxConns
Trigs == 1..MaxTrig

\* ------------------------------------------------------- thread ids
UI == <<"ui", 0>>
ACC == <<"acc", 0>>
Rx(c) == <<"rx", c>>
Mon(c) == <<"mon", c>>
Trig(k) == <<"trig", k>>
RxThreads == {Rx(c) : c \in Conns}
MonThreads == {Mon(c) : c \in Conns}
TrigThreads == {Trig(k) : k \in Trigs}
Threads == {UI, ACC} \cup RxThreads \cup MonThreads \cup TrigThreads

\* ------------------------------------------- identities and addresses
\* The local identity key and the keys of the remote parties.  mallory
\* presents alice's public key without owning its private key.
LocalKey == "KS"
PresentedKey(id) == IF id = "bob" THEN "KB" ELSE "KA"
SigningKey(id) == CASE id = "alice" -> "KA" [] id = "bob" -> "KB" [] OTHER -> "KM"

\* get_peer_fingerprint: SHA-256 of the compressed point, hex; an injective
\* map from keys to fingerprints.
Fingerprint(key) ==
    CASE key = "KA" -> "FA" [] key = "KB" -> "FB" [] key = "KM" -> "FM"
      [] key = "KS" -> "FS" [] OTHER -> "F?"

OnionAddrs == {"peer.onion"}
\* Who answers when the local instance dials an address.
DialIdents(addr) == IF addr = "ip1" THEN {"alice", "mallory"} ELSE {"alice"}
NoAddr == "None"

\* _validate_ip_address: ipaddress.ip_address(ip) parses.
_validate_ip_address(ip) == ip \in {"ip1"}
\* _is_onion_address: address.endswith('.onion').
_is_onion_address(address) == address \in OnionAddrs

\* ------------------------------------------------------------ crypto
NoChal == [by |-> "none", n |-> 0]
NoSig == [by |-> "none", over |-> NoChal]
NoKey == "None"
NoSession == {}
ValidKeys == {"KA", "KB", "KM", "KS"}

\* os.urandom(32) drawn for the handshake that runs on socket c.
LocalChallenge(c) == [by |-> "local", n |-> c]
RemoteChallenge(c) == [by |-> "remote", n |-> c]

\* CryptoManager.sign_challenge: ECDSA with the signer's private key.
sign_challenge(key, challenge) == [by |-> key, over |-> challenge]

\* A verification that looks at the key only and accepts any signature.
verify_signature_any(public_key, challenge, signature) == public_key \in ValidKeys

\* CryptoManager.verify_signature: False on a bad key, a bad signature or
\* another challenge.
verify_signature(public_key, challenge, signature) ==
    /\ public_key \in ValidKeys
    /\ signature.by = public_key
    /\ signature.over = challenge

\* A key derivation that leaves the peer's key out.
_derive_session_key_own_only(own_key, peer_key) == {own_key}

\* CryptoManager._derive_session_key: ECDH of the own private key with the
\* peer's public key, then HKDF; both ends of an honest pair get the same key.
_derive_session_key(own_key, peer_key) == {own_key, peer_key}

\* CryptoManager.set_peer_public_key: stores the key and derives the session
\* key at once.
set_peer_public_key(cr, peer_key) ==
    [cr EXCEPT !.peer_public_key = peer_key,
               !.session_key = _derive_session_key(LocalKey, peer_key)]

\* ------------------------------------------------------------ frames
Frame(k, key, chal, sig) ==
    [k |-> k, key |-> key, chal |-> chal, sig |-> sig, sess |-> NoSession, tt |-> "raw"]
\* An encrypted session message: ChaCha20-Poly1305 under the session key.
encrypt_message(session_key, k) ==
    [Frame(k, NoKey, NoChal, NoSig) EXCEPT !.sess = session_key]
\* decrypt_message raises without a session key, and on bytes that were not
\* encrypted under it.
Decrypts(cr, frame) == cr.session_key # NoSession /\ frame.sess = cr.session_key

\* An encrypt_bytes without its test of the session key.
encrypt_bytes_unguarded(session_key, nonce, data) ==
    [raised |-> FALSE,
     out |-> nonce \o <<[key |-> session_key, nonce |-> nonce, data |-> data]>>]

\* The four operations on the bytes themselves.  os.urandom(12) is the
\* argument nonce, twelve bytes; AESGCM.encrypt gives a ciphertext that only
\* the same key and nonce open (here one element holding key, nonce and
\* data); each operation raises ValueError without a session key.  The
\* result says whether the call raised and what it returned.
encrypt_bytes(session_key, nonce, data) ==
    IF session_key = NoSession THEN [raised |-> TRUE, out |-> <<>>]
    ELSE LET ciphertext == <<[key |-> session_key, nonce |-> nonce, data |-> data]>>
         IN  [raised |-> FALSE, out |-> nonce \o ciphertext]

\* decrypt_bytes: the first twelve bytes are the nonce, the rest the
\* ciphertext; AESGCM.decrypt raises InvalidTag on anything that was not
\* encrypted under this key with this nonce.
decrypt_bytes(session_key, encrypted_data) ==
    IF session_key = NoSession THEN [raised |-> TRUE, out |-> <<>>]
    ELSE LET nonce == SubSeq(encrypted_data, 1, 12)
             ciphertext == SubSeq(encrypted_data, 13, Len(encrypted_data))
         IN  IF /\ Len(encrypted_data) = 13
                /\ ciphertext[1].key = session_key
                /\ ciphertext[1].nonce = nonce
             THEN [raised |-> FALSE, out |-> ciphertext[1].data]
             ELSE [raised |-> TRUE, out |-> <<>>]

\* encrypt_message on a str: message.encode() (UTF-8: "a" is one byte, "e'"
\* two), then as encrypt_bytes.
encrypt_message_str(session_key, nonce, message) ==
    LET RECURSIVE encode(_)
        encode(m) == IF m = <<>> THEN <<>>
                     ELSE (IF Head(m) = "a" THEN <<97>> ELSE <<195, 169>>) \o encode(Tail(m))
    IN  IF session_key = NoSession THEN [raised |-> TRUE, out |-> <<>>]
        ELSE encrypt_bytes(session_key, nonce, encode(message))

\* decrypt_message: as decrypt_bytes, then plaintext.decode(), which raises
\* on bytes that are no UTF-8.
decrypt_message(session_key, encrypted_data) ==
    LET RECURSIVE utf8(_)
        utf8(b) == \/ b = <<>>
                   \/ Head(b) = 97 /\ utf8(Tail(b))
                   \/ Len(b) >= 2 /\ b[1] = 195 /\ b[2] = 169 /\ utf8(Tail(Tail(b)))
        RECURSIVE decode(_)
        decode(b) == IF b = <<>> THEN <<>>
                     ELSE IF Head(b) = 97 THEN <<"a">> \o decode(Tail(b))
                     ELSE <<"e'">> \o decode(Tail(Tail(b)))
        plaintext == decrypt_bytes(session_key, encrypted_data)
    IN  IF plaintext.raised \/ ~utf8(plaintext.out) THEN [raised |-> TRUE, out |-> <<>>]
        ELSE [raised |-> FALSE, out |-> decode(plaintext.out)]

\* _send_raw: what reaches the wire.  IOMixin prefixes the payload with the
\* transmission type and ':'; the other generations send the payload alone.
_send_raw(v, frame) == IF v = "mixin" THEN [frame EXCEPT !.tt = "GEN"] ELSE frame

\* _receive_raw on a complete frame: IOMixin splits at ':' and returns the
\* pair (data, transmission_type); the other generations return the bytes.
_receive_raw(v, wire) ==
    IF v = "mixin"
    THEN [tuple |-> TRUE, data |-> [wire EXCEPT !.tt = "raw"], tt |-> wire.tt]
    ELSE [tuple |-> FALSE, data |-> wire, tt |-> "raw"]

\* `.decode()` / slicing of what _receive_raw returned: a tuple has no
\* decode(), so the caller raises.
Decodable(received) == ~received.tuple

\* ------------------------------------------------------------- state
VARIABLES
    variant,            \* which generation of the core runs
    self,               \* the P2PConnection object's fields
    crypto,             \* self.crypto: peer_public_key, session_key
    known_hosts_file,   \* known_hosts.json: whether it exists, and its "hosts",
                        \* a set of <<address, fingerprint>>
    hosts_data,         \* self.hosts_manager._data["hosts"] (mono, mixin)
    ui_hosts_data,      \* console_ui.hosts_manager._data["hosts"] (mono, mixin)
    sock,               \* the TCP sockets of this process
    rem,                \* the remote endpoint of each socket
    pc,                 \* position of every thread
    local,              \* locals of every thread
    hs_result,          \* what the last _exchange_handshake_data call returned
    renewal,            \* what the last _trigger_reconnection call did
    io,                 \* one frame on its way, byte by byte: sender, stream, receiver
    msg                 \* the message layer of one session: receive loop, file transfer, pings

vars == <<variant, self, crypto, known_hosts_file, hosts_data, ui_hosts_data,
          sock, rem, pc, local, hs_result, renewal, io, msg>>

NoSock == [st |-> "free", tmo |-> FALSE, addr |-> NoAddr, inb |-> <<>>, outb |-> <<>>,
           sent |-> 0, rcvd |-> 0]
\* st: "free" (not created yet), "backlog" (waiting in the listen queue),
\* "connecting", "open", "closed", "rejected" (closed by the accept loop
\* because a session was up).  sent, rcvd: the chat messages send_message
\* has written to the socket and the receive loop has delivered from it.
\* The chat messages of socket c in both directions, and one more written
\* or delivered.
Traffic(sk, c) == sk[c].sent + sk[c].rcvd
Written(sk, c) == [sk EXCEPT ![c].sent = @ + 1]
Delivered(sk, c) == [sk EXCEPT ![c].rcvd = @ + 1]

ClosedSock == [NoSock EXCEPT !.st = "closed"]
RejectedSock == [NoSock EXCEPT !.st = "rejected"]
NoRem == [id |-> "none", st |-> "none", pc |-> "none", chal |-> NoChal]
NoLocal == [role |-> "-", sk |-> 0, chal |-> NoChal, pkey |-> NoKey, pchal |-> NoChal,
            addr |-> NoAddr, tofu |-> "none", in_store |-> FALSE, stopped |-> FALSE]
NoHsResult == [ok |-> FALSE, role |-> "-", peer |-> "none", fp |-> "None", tofu |-> "none",
               in_store |-> FALSE, verified |-> FALSE]
NoRenewal == [st |-> "none", server |-> FALSE, addr |-> NoAddr, dialed |-> NoAddr,
              socks |-> FALSE]

\* No frame on its way.  p: the payload handed to _send_raw; tx: the buffers
\* of the send calls still to come; closed: the sender has closed its end;
\* wire: the bytes written and not yet read; rx: where _receive_raw is
\* ("len", "data", "done"); need, buf: its length and data; eof: a recv
\* returned zero bytes; out: what it returned or raised.  p2, tx2: the
\* payload and the buffers still to come of a _send_raw that another thread
\* runs on the same socket at the same time.
NoIo == [p |-> <<>>, tx |-> <<>>, p2 |-> <<>>, tx2 |-> <<>>,
         closed |-> FALSE, wire |-> <<>>, rx |-> "done",
         need |-> 0, buf |-> <<>>, eof |-> FALSE, out |-> [kind |-> "none"]]

\* The message layer before a session: _receiving_file, _file_receive_info
\* (file_obj 0: None), the flags of core/file_transfer.py, the counter, the
\* pings.  handles: every file object opened, in order; disk: the files of
\* received_files/.  History of the session: rcvd (payloads read in normal
\* mode), chat (payloads handed on as chat messages), raw (payloads handed
\* to message_callback as they are), sent (payloads sent), frames (frames
\* read), accepted, declined (the caller has answered), pings (ids of the
\* pings sent), results (what ping_peer returned).
NoMsg ==
    [connected |-> FALSE, loop |-> "none",
     _receiving_file |-> FALSE,
     _file_receive_info |-> [name |-> "None", size |-> 0, received |-> 0, file_obj |-> 0],
     FILE_TRANSFER_BOOL |-> FALSE, FILE_TRANSFER_PROCEDURE |-> FALSE,
     _message_count |-> 0,
     handles |-> <<>>,
     disk |-> [n \in {"a", "b"} |-> [exists |-> FALSE, bytes |-> <<>>]],
     rcvd |-> <<>>, chat |-> <<>>, raw |-> <<>>, sent |-> <<>>,
     frames |-> 0, accepted |-> FALSE, declined |-> FALSE,
     clock |-> 0, _ping_responses |-> [keys |-> {}, times |-> {}],
     ping |-> [pc |-> "idle", id |-> "None", start |-> 0],
     pings |-> <<>>, results |-> <<>>,
     _ping_lock |-> "free", pong |-> [pc |-> "idle", id |-> "None"]]

\* known_hosts.json when the program starts: with no entry, with alice's
\* under ip1, or not there at all.
StoresInit ==
    {[exists |-> TRUE, hosts |-> h] : h \in {{}, {<<"ip1", "FA">>}}}
        \cup {[exists |-> FALSE, hosts |-> {}]}

\* KnownHostsManager._load_data and load_known_hosts: the "hosts" of the
\* file, and none when there is no file; the file is left as it is.
_load_data(file) == IF file.exists THEN file.hosts ELSE {}

\* The object as P2PConnection.__init__ leaves it.
Constructed ==
    /\ variant \in Variants
    /\ self = [connected |-> FALSE, socket |-> "None", peer_socket |-> 0,
               _stop_flag |-> FALSE, _server_running |-> FALSE,
               _message_count |-> 0, _last_renewal_time |-> "None",
               _peer_connection_details |-> NoAddr, _is_server_mode |-> FALSE,
               _reconnect_in_progress |-> FALSE,
               _accept_thread |-> FALSE, _receive_thread |-> 0, _renewal_thread |-> 0]
    /\ crypto = [peer_public_key |-> NoKey, session_key |-> NoSession]
    /\ known_hosts_file \in StoresInit
    /\ hosts_data = _load_data(known_hosts_file)
    /\ ui_hosts_data = _load_data(known_hosts_file)
    /\ sock = [c \in Conns |-> NoSock]
    /\ rem = [c \in Conns |-> NoRem]
    /\ pc = [t \in Threads |-> IF t = UI THEN "idle" ELSE "none"]
    /\ local = [t \in Threads |-> NoLocal]
    /\ hs_result = NoHsResult
    /\ renewal = NoRenewal

Init == Constructed /\ known_hosts_file.exists /\ io = NoIo /\ msg = NoMsg

\* ---------------------------------------------------------- sockets
\* shutdown(SHUT_RDWR) and close() of socket c (0 is None): nothing more is
\* read from it or written to it, and its remote end sees the end of stream.
CloseSock(sk, c) == IF c = 0 THEN sk ELSE [sk EXCEPT ![c] = ClosedSock]
CloseRem(rm, c) == IF c = 0 THEN rm ELSE [rm EXCEPT ![c] = NoRem]

\* sendall of frames on socket c.  Bytes written to a socket that is gone or
\* whose peer has left are lost; the failure shows at the next receive.
SendFrames(sk, c, frames) ==
    IF c # 0 /\ sk[c].st = "open"
    THEN [sk EXCEPT ![c].outb = sk[c].outb \o frames]
    ELSE sk

\* The lowest socket id not yet used in this behaviour (0 when none is left).
FreshSock(sk) ==
    IF \E c \in Conns : sk[c].st = "free"
    THEN CHOOSE c \in Conns : sk[c].st = "free" /\ \A d \in Conns : d < c => sk[d].st # "free"
    ELSE 0

\* A blocked recv on socket c can return: a frame is there, the socket was
\* closed under the caller, the peer closed, or the socket's timeout ran out.
HasFrame(c) == c # 0 /\ sock[c].st = "open" /\ sock[c].inb # <<>>
SockGone(c) == c = 0 \/ sock[c].st # "open"
PeerClosed(c) == c # 0 /\ sock[c].st = "open" /\ sock[c].inb = <<>> /\ rem[c].st = "closed"
TimedOut(c) == c # 0 /\ sock[c].st = "open" /\ sock[c].inb = <<>> /\ sock[c].tmo

\* socket.settimeout on socket c.
SetTimeout(sk, c, on) == IF c # 0 /\ sk[c].st = "open" THEN [sk EXCEPT ![c].tmo = on] ELSE sk

\* ------------------------------------------------------ P2PConnection
\* _close_peer_socket
_close_peer_socket(s) == [s EXCEPT !.peer_socket = 0]

\* Thread.join on the calling thread itself raises RuntimeError.  The two
\* joins of _stop_peer_connection are on self._receive_thread and
\* self._renewal_thread, each alive whenever it is the caller.
JoinRaises(s, t) ==
    \/ s._receive_thread # 0 /\ t = Rx(s._receive_thread)
    \/ s._renewal_thread # 0 /\ t = Mon(s._renewal_thread)

\* A teardown that takes the listener down with the session.
_stop_peer_connection_all(v, s, t) ==
    [s EXCEPT !.connected = FALSE, !.peer_socket = 0,
              !._server_running = FALSE, !.socket = "None"]

\* _stop_peer_connection, called by thread t: the fields after the call.
\* legacy joins first, then closes, drops the thread references and clears
\* _reconnect_in_progress; mono and mixin close first and join last.
_stop_peer_connection(v, s, t) ==
    IF v = "legacy"
    THEN IF JoinRaises(s, t)
         THEN [s EXCEPT !.connected = FALSE]
         ELSE [s EXCEPT !.connected = FALSE, !.peer_socket = 0,
                        !._receive_thread = 0, !._renewal_thread = 0,
                        !._reconnect_in_progress = FALSE]
    ELSE [s EXCEPT !.connected = FALSE, !.peer_socket = 0]

\* The socket _stop_peer_connection closes (0: none).
StopCloses(v, s, t) == IF v = "legacy" /\ JoinRaises(s, t) THEN 0 ELSE s.peer_socket

\* An _initialize_renewal_trackers that leaves the count as it is.
_initialize_renewal_trackers_time_only(s) == [s EXCEPT !._last_renewal_time = "fresh"]

\* _initialize_renewal_trackers
_initialize_renewal_trackers(s) ==
    [s EXCEPT !._message_count = 0, !._last_renewal_time = "fresh"]

\* A _should_renew_connection without its test of _last_renewal_time.
_should_renew_connection_unguarded(v, s) ==
    s._message_count >= RENEW_AFTER_MESSAGES \/ s._last_renewal_time = "expired"

\* _should_renew_connection (legacy: the two tests of _renewal_monitor).
\* _last_renewal_time is "expired" once RENEW_AFTER_MINUTES have passed.
_should_renew_connection(v, s) ==
    IF v = "legacy"
    THEN s._message_count >= RENEW_AFTER_MESSAGES \/ s._last_renewal_time = "expired"
    ELSE /\ s._last_renewal_time # "None"
         /\ (s._message_count >= RENEW_AFTER_MESSAGES \/ s._last_renewal_time = "expired")

\* ------------------------------------------------------- trust store
\* The fingerprints a store holds, whatever the address.
get_all_fingerprints(store) == {e[2] : e \in store}
\* get_host_fingerprint: the fingerprint stored for an address, or "None".
get_host_fingerprint(store, addr) ==
    IF \E e \in store : e[1] = addr
    THEN (CHOOSE e \in store : e[1] = addr)[2]
    ELSE "None"

\* _verify_tofu_identity.  legacy reads known_hosts.json at every call and
\* wants the fingerprint among its values, and refuses when there is no
\* file (or none it can decode); mixin wants it among the entries
\* its own KnownHostsManager loaded; mono compares with the entry of the
\* peer's address and lets a peer through when the address has none.
_verify_tofu_identity(v, cr, file, data, addr) ==
    LET peer_fingerprint == Fingerprint(cr.peer_public_key) IN
    CASE v = "legacy" -> file.exists /\ peer_fingerprint \in get_all_fingerprints(file.hosts)
      [] v = "mixin" -> peer_fingerprint \in get_all_fingerprints(data)
      [] OTHER -> LET expected_fingerprint == get_host_fingerprint(data, addr) IN
                  expected_fingerprint = "None" \/ expected_fingerprint = peer_fingerprint

\* ------------------------------------------- _exchange_handshake_data
\* One stretch of _exchange_handshake_data, from the return of a _receive_raw
\* to the next _receive_raw or to the return.  role "i" is
\* send_public_key_first=True.  The result says whether the call goes on
\* blocking ("block"), returns True ("ok") or returns False ("fail"), what it
\* sent, and the crypto manager and locals after it.
HsOut(out, nxt, send, cr, lc, verified) ==
    [out |-> out, nxt |-> nxt, send |-> send, cr |-> cr, lc |-> lc, verified |-> verified]
HsFailed(cr, lc) == HsOut("fail", "-", <<>>, cr, lc, FALSE)

\* The locals once _verify_tofu_identity has answered: its answer, and
\* whether known_hosts.json held the received key's fingerprint just then.
Checked(lc, trusted, file) ==
    [lc EXCEPT !.tofu = IF trusted THEN "passed" ELSE "refused",
               !.in_store = Fingerprint(lc.pkey) \in get_all_fingerprints(file.hosts)]

\* The first send of the initiator.
HsFirstSend(v, lc) ==
    IF v = "legacy"
    THEN <<Frame("pk", LocalKey, NoChal, NoSig)>>
    ELSE <<Frame("hello", LocalKey, lc.chal, NoSig)>>

\* src/connection.py: keys, then TOFU, then challenges, then signatures.
LegacyHandshake(role, st, f, lc, cr, file) ==
    CASE st = "hs1" ->
           IF f.k # "pk" \/ f.key \notin ValidKeys
           THEN HsOut("fail", "-", IF role = "r" THEN <<Frame("pk", LocalKey, NoChal, NoSig)>> ELSE <<>>,
                      cr, lc, FALSE)
           ELSE LET cr1 == set_peer_public_key(cr, f.key)
                    trusted == _verify_tofu_identity("legacy", cr1, file, {}, lc.addr)
                    lc1 == Checked([lc EXCEPT !.pkey = f.key], trusted, file)
                    own == IF role = "r" THEN <<Frame("pk", LocalKey, NoChal, NoSig)>> ELSE <<>>
                IN IF ~trusted
                   THEN HsOut("fail", "-", own, cr1, lc1, FALSE)
                   ELSE HsOut("block", "hs2",
                              IF role = "i" THEN <<Frame("chal", NoKey, lc.chal, NoSig)>> ELSE own,
                              cr1, lc1, FALSE)
      [] st = "hs2" ->
           IF role = "i"
           THEN HsOut("block", "hs3",
                      <<Frame("sig", NoKey, NoChal, sign_challenge(LocalKey, f.chal))>>,
                      cr, lc, FALSE)
           ELSE HsOut("block", "hs3", <<Frame("chal", NoKey, lc.chal, NoSig)>>,
                      cr, [lc EXCEPT !.pchal = f.chal], FALSE)
      [] OTHER ->
           LET own == IF role = "r"
                      THEN <<Frame("sig", NoKey, NoChal, sign_challenge(LocalKey, lc.pchal))>>
                      ELSE <<>>
           IN IF verify_signature(lc.pkey, lc.chal, f.sig)
              THEN HsOut("ok", "-", own, cr, lc, TRUE)
              ELSE HsOut("fail", "-", own, cr, lc, FALSE)

\* src/src/network/connection.py and connection_handshake.py: two JSON
\* messages each way, the signature check, then TOFU.
JsonHandshake(v, role, st, f, lc, cr, file, data) ==
    LET trusted(cr1) == _verify_tofu_identity(v, cr1, file, data, lc.addr)
        tofu(cr1) == IF trusted(cr1) THEN "ok" ELSE "fail"
    IN
    CASE role = "i" ->
           IF f.k # "reply" THEN HsFailed(cr, lc)
           ELSE IF ~verify_signature(f.key, lc.chal, f.sig) THEN HsFailed(cr, [lc EXCEPT !.pkey = f.key])
           ELSE LET cr1 == set_peer_public_key(cr, f.key)
                    lc1 == [lc EXCEPT !.pkey = f.key]
                IN HsOut(tofu(cr1), "-",
                         <<Frame("sig", NoKey, NoChal, sign_challenge(LocalKey, f.chal))>>,
                         cr1, Checked(lc1, trusted(cr1), file), TRUE)
      [] role = "r" /\ st = "hs1" ->
           IF f.k \notin {"hello", "reply"} \/ f.key \notin ValidKeys THEN HsFailed(cr, lc)
           ELSE HsOut("block", "hs2",
                      <<Frame("reply", LocalKey, lc.chal, sign_challenge(LocalKey, f.chal))>>,
                      set_peer_public_key(cr, f.key), [lc EXCEPT !.pkey = f.key], FALSE)
      [] OTHER ->
           IF f.k \notin {"sig", "reply"} THEN HsFailed(cr, lc)
           ELSE IF ~verify_signature(lc.pkey, lc.chal, f.sig) THEN HsFailed(cr, lc)
           ELSE HsOut(tofu(cr), "-", <<>>, cr, Checked(lc, trusted(cr), file), TRUE)

\* The stretch that follows the return of _receive_raw with the wire frame
\* `wire`; got is FALSE when the receive ended without a frame (timeout, end
\* of stream, socket error).
HandshakeStep(v, role, st, got, wire, lc, cr, file, data) ==
    IF ~got THEN HsFailed(cr, lc)
    ELSE IF v = "legacy" THEN LegacyHandshake(role, st, wire, lc, cr, file)
    ELSE LET received == _receive_raw(v, wire) IN
         IF ~Decodable(received) THEN HsFailed(cr, lc)
         ELSE JsonHandshake(v, role, st, received.data, lc, cr, file, data)

\* ------------------------------------------------------- remote peer
\* The remote end runs the same generation of the code with its own
\* identity.  It knows the local instance's key; whether it trusts it is its
\* own affair (it may close at any time).
RemOut(pcn, send, chal, close) == [pc |-> pcn, send |-> send, chal |-> chal, close |-> close]

RemoteFirstSend(v, id, c) ==
    IF v = "legacy"
    THEN <<_send_raw(v, Frame("pk", PresentedKey(id), NoChal, NoSig))>>
    ELSE <<_send_raw(v, Frame("hello", PresentedKey(id), RemoteChallenge(c), NoSig))>>

RemoteHandshake(v, id, c, r, f) ==
    LET mine == RemoteChallenge(c)
        quit == RemOut("none", <<>>, NoChal, TRUE)
        sig(ch) == Frame("sig", NoKey, NoChal, sign_challenge(SigningKey(id), ch))
        good(s) == verify_signature(LocalKey, mine, s)
    IN
    CASE v = "mixin" -> quit
      [] v = "legacy" /\ r.pc = "i1" ->
           IF f.k = "pk" THEN RemOut("i2", <<Frame("chal", NoKey, mine, NoSig)>>, NoChal, FALSE)
           ELSE quit
      [] v = "legacy" /\ r.pc = "i2" -> RemOut("i3", <<sig(f.chal)>>, NoChal, FALSE)
      [] v = "legacy" /\ r.pc = "i3" ->
           IF good(f.sig) THEN RemOut("est", <<>>, NoChal, FALSE) ELSE quit
      [] v = "legacy" /\ r.pc = "r1" ->
           IF f.k = "pk"
           THEN RemOut("r2", <<Frame("pk", PresentedKey(id), NoChal, NoSig)>>, NoChal, FALSE)
           ELSE quit
      [] v = "legacy" /\ r.pc = "r2" ->
           RemOut("r3", <<Frame("chal", NoKey, mine, NoSig)>>, f.chal, FALSE)
      [] v = "legacy" /\ r.pc = "r3" ->
           IF good(f.sig) THEN RemOut("est", <<sig(r.chal)>>, NoChal, FALSE)
           ELSE RemOut("none", <<sig(r.chal)>>, NoChal, TRUE)
      [] v = "mono" /\ r.pc = "i1" ->
           IF f.k = "reply" /\ good(f.sig) THEN RemOut("est", <<sig(f.chal)>>, NoChal, FALSE)
           ELSE quit
      [] v = "mono" /\ r.pc = "r1" ->
           IF f.k \in {"hello", "reply"}
           THEN RemOut("r2", <<Frame("reply", PresentedKey(id), mine,
                                     sign_challenge(SigningKey(id), f.chal))>>, NoChal, FALSE)
           ELSE quit
      [] v = "mono" /\ r.pc = "r2" ->
           IF f.k \in {"sig", "reply"} /\ good(f.sig) THEN RemOut("est", <<>>, NoChal, FALSE)
           ELSE quit
      [] OTHER -> RemOut(r.pc, <<>>, r.chal, FALSE)

\* ------------------------------------------------------------ actions
HsPcs == {"hs1", "hs2", "hs3"}
NoFrame == Frame("none", NoKey, NoChal, NoSig)
Wire(v, frames) == [i \in DOMAIN frames |-> _send_raw(v, frames[i])]

\* Where thread t goes on when connect_to_peer / connect_to_onion_peer or the
\* handshake of the accept loop has returned, the fields being s.
Continue(t, s) ==
    CASE t = UI -> "idle"
      [] t = ACC -> "accept"
      [] t \in MonThreads -> IF s.connected /\ ~s._stop_flag THEN "sleep" ELSE "done"
      [] OTHER -> "done"

\* _trigger_reconnection clears _reconnect_in_progress when its redial has
\* returned (legacy: last statement; mono, mixin: the finally clause).
AfterRedial(t, s) ==
    IF t \in MonThreads \cup TrigThreads THEN [s EXCEPT !._reconnect_in_progress = FALSE] ELSE s

\* The record of the last _trigger_reconnection once thread t, if it runs
\* one, has come to its end.
RenewalDone(t) ==
    IF t \in MonThreads \cup TrigThreads THEN [renewal EXCEPT !.st = "done"] ELSE renewal

\* The accept loop rejects while a session is up.
AlreadyConnected_never(s) == FALSE
AlreadyConnected(s) == s.connected

\* A start_server without the test of _server_running.
start_server_always(s) ==
    [s EXCEPT !._stop_flag = FALSE, !._server_running = TRUE,
              !.socket = "open", !._is_server_mode = TRUE,
              !._accept_thread = TRUE]

\* start_server: the fields after the call.  It returns at once when
\* _server_running is set; otherwise it clears the stop flag, binds the
\* listening socket and sets the server mode.
start_server(s) ==
    IF s._server_running
    THEN s
    ELSE [s EXCEPT !._stop_flag = FALSE, !._server_running = TRUE,
                   !.socket = "open", !._is_server_mode = TRUE,
                   !._accept_thread = TRUE]

\* The user's start_server(); when it went past the early return, the
\* accept thread is started.
StartServer ==
    /\ pc[UI] = "idle"
    /\ self._server_running \/ pc[ACC] \in {"none", "done", "accept"}
    /\ self' = start_server(self)
    /\ pc' = IF start_server(self) = self THEN pc ELSE [pc EXCEPT ![ACC] = "accept"]
    /\ UNCHANGED <<variant, msg, io, crypto, known_hosts_file, hosts_data, ui_hosts_data,
                   sock, rem, local, hs_result, renewal>>

\* A remote party connects to the listening port and, as initiator, sends
\* its first handshake message.
Peers == {<<"alice", "ip1">>, <<"bob", "ip1">>, <<"mallory", "ip1">>}
RemoteDial(id, addr) ==
    LET c == FreshSock(sock) IN
    /\ self.socket = "open"
    /\ c # 0
    /\ \A d \in Conns : sock[d].st # "backlog"
    /\ sock' = [sock EXCEPT ![c] = [NoSock EXCEPT !.st = "backlog", !.addr = addr,
                                                  !.inb = RemoteFirstSend(variant, id, c)]]
    /\ rem' = [rem EXCEPT ![c] = [NoRem EXCEPT !.id = id, !.st = "live", !.pc = "i1"]]
    /\ UNCHANGED <<variant, msg, io, self, crypto, known_hosts_file, hosts_data, ui_hosts_data,
                   pc, local, hs_result, renewal>>

\* _accept_connections: accept() returned the connection c.
AcceptConnection ==
    /\ pc[ACC] = "accept"
    /\ ~self._stop_flag /\ self._server_running /\ self.socket = "open"
    /\ \E c \in Conns :
        /\ sock[c].st = "backlog"
        /\ IF AlreadyConnected(self)
           THEN /\ sock' = [sock EXCEPT ![c] = RejectedSock]
                /\ rem' = CloseRem(rem, c)
                /\ UNCHANGED <<self, pc, local>>
           ELSE LET s1 == _stop_peer_connection(variant, self, ACC)
                    old == StopCloses(variant, self, ACC)
                    sk1 == CloseSock(sock, old)
                IN /\ self' = [s1 EXCEPT !.peer_socket = c,
                                         !._peer_connection_details = sock[c].addr,
                                         !._is_server_mode = TRUE]
                   /\ sock' = [sk1 EXCEPT ![c].st = "open", ![c].tmo = (variant = "legacy")]
                   /\ rem' = CloseRem(rem, old)
                   /\ pc' = [pc EXCEPT ![ACC] = "hs1"]
                   /\ local' = [local EXCEPT ![ACC] =
                                   [NoLocal EXCEPT !.role = "r", !.sk = c,
                                                   !.chal = LocalChallenge(c),
                                                   !.addr = sock[c].addr]]
    /\ UNCHANGED <<variant, msg, io, crypto, known_hosts_file, hosts_data, ui_hosts_data,
                   hs_result, renewal>>

\* _accept_connections: accept() timed out or failed and the loop condition
\* no longer holds.  legacy closes the peer socket when accept() raised.
AcceptExit ==
    /\ pc[ACC] = "accept"
    /\ self._stop_flag \/ ~self._server_running \/ self.socket = "None"
    /\ pc' = [pc EXCEPT ![ACC] = "done"]
    /\ \/ UNCHANGED <<self, sock, rem>>
       \/ /\ variant = "legacy"
          /\ self.peer_socket # 0
          /\ self' = _close_peer_socket(self)
          /\ sock' = CloseSock(sock, self.peer_socket)
          /\ rem' = CloseRem(rem, self.peer_socket)
    /\ UNCHANGED <<variant, msg, io, crypto, known_hosts_file, hosts_data, ui_hosts_data,
                   local, hs_result, renewal>>

\* _exchange_handshake_data and its caller, from the return of a _receive_raw
\* of thread t (got: with a frame) to the next blocking call.
HsReturn(t, got) ==
    LET c == local[t].sk
        ps == self.peer_socket
        wire == IF got THEN Head(sock[c].inb) ELSE NoFrame
        r == HandshakeStep(variant, local[t].role, pc[t], got, wire, local[t], crypto,
                           known_hosts_file, hosts_data)
        sk1 == IF got THEN [sock EXCEPT ![c].inb = Tail(@)] ELSE sock
        \* legacy _send_raw raises without a peer socket, and so does its
        \* _receive_raw; the others' _receive_raw then returns b''.
        unsent == variant = "legacy" /\ r.send # <<>> /\ ps = 0
        lost == unsent \/ (r.out = "block" /\ ps = 0)
        out == IF lost THEN "fail" ELSE r.out
        cr1 == IF unsent /\ local[t].role = "r" /\ pc[t] = "hs1" THEN crypto ELSE r.cr
        sk2 == SendFrames(sk1, ps, Wire(variant, r.send))
        res == [ok |-> out = "ok", role |-> local[t].role,
                peer |-> IF c = 0 THEN "none" ELSE rem[c].id,
                fp |-> IF r.lc.pkey = NoKey THEN "None" ELSE Fingerprint(r.lc.pkey),
                tofu |-> r.lc.tofu,
                in_store |-> IF r.lc.tofu # "none" THEN r.lc.in_store
                             ELSE Fingerprint(r.lc.pkey) \in get_all_fingerprints(known_hosts_file.hosts),
                verified |-> r.verified]
    IN
    /\ crypto' = cr1
    /\ CASE out = "block" ->
              /\ pc' = [pc EXCEPT ![t] = r.nxt]
              /\ local' = [local EXCEPT ![t] = [r.lc EXCEPT !.sk = ps]]
              /\ sock' = sk2
              /\ UNCHANGED <<self, rem, hs_result>>
         [] out = "ok" ->
              LET s1 == AfterRedial(t, [_initialize_renewal_trackers(self) EXCEPT
                                           !.connected = TRUE,
                                           !._receive_thread = c, !._renewal_thread = c])
              IN /\ self' = s1
                 /\ pc' = [pc EXCEPT ![t] = Continue(t, s1), ![Rx(c)] = "loop", ![Mon(c)] = "loop"]
                 /\ local' = [local EXCEPT ![t] = NoLocal]
                 /\ sock' = IF variant = "legacy" THEN SetTimeout(sk2, ps, FALSE) ELSE sk2
                 /\ hs_result' = res
                 /\ UNCHANGED rem
         [] OTHER ->
              LET s1 == AfterRedial(t, _close_peer_socket(self))
              IN /\ self' = s1
                 /\ pc' = [pc EXCEPT ![t] = Continue(t, s1)]
                 /\ local' = [local EXCEPT ![t] = NoLocal]
                 /\ sock' = CloseSock(sk2, ps)
                 /\ rem' = CloseRem(rem, ps)
                 /\ hs_result' = res
    /\ renewal' = IF out = "block" THEN renewal ELSE RenewalDone(t)
    \* legacy _verify_tofu_identity writes an empty known_hosts.json when it
    \* finds none
    /\ known_hosts_file' =
           IF /\ variant = "legacy"
              /\ local[t].tofu = "none" /\ r.lc.tofu # "none"
              /\ ~(unsent /\ local[t].role = "r" /\ pc[t] = "hs1")
              /\ ~known_hosts_file.exists
           THEN [exists |-> TRUE, hosts |-> {}]
           ELSE known_hosts_file
    /\ UNCHANGED <<variant, msg, io, hosts_data, ui_hosts_data>>

\* A handshake _receive_raw returns: with a frame, or because the socket
\* was closed or the peer left.
HsRecv(t) ==
    /\ pc[t] \in HsPcs
    /\ \/ HasFrame(local[t].sk) /\ HsReturn(t, TRUE)
       \/ (SockGone(local[t].sk) \/ PeerClosed(local[t].sk)) /\ HsReturn(t, FALSE)

\* A handshake _receive_raw runs into the socket's timeout.
HsTimeout(t) ==
    /\ pc[t] \in HsPcs
    /\ TimedOut(local[t].sk)
    /\ HsReturn(t, FALSE)

\* The remote end reads one frame and answers as its handshake says.
RemoteStep(c) ==
    /\ sock[c].st = "open"
    /\ rem[c].st = "live"
    /\ sock[c].outb # <<>>
    /\ LET r == RemoteHandshake(variant, rem[c].id, c, rem[c], Head(sock[c].outb)) IN
       /\ sock' = [sock EXCEPT ![c].outb = Tail(@),
                               ![c].inb = @ \o Wire(variant, r.send)]
       /\ rem' = [rem EXCEPT ![c].pc = r.pc, ![c].chal = r.chal,
                             ![c].st = IF r.close THEN "closed" ELSE "live"]
    /\ UNCHANGED <<variant, msg, io, self, crypto, known_hosts_file, hosts_data, ui_hosts_data,
                   pc, local, hs_result, renewal>>

\* The remote end closes its socket (it refuses the peer, or it quits).
RemoteClose(c) ==
    /\ sock[c].st = "open"
    /\ rem[c].st = "live"
    /\ rem' = [rem EXCEPT ![c].st = "closed", ![c].pc = "none", ![c].chal = NoChal]
    /\ UNCHANGED <<variant, msg, io, self, crypto, known_hosts_file, hosts_data, ui_hosts_data,
                   sock, pc, local, hs_result, renewal>>

\* connect_to_peer (onion FALSE) or connect_to_onion_peer (onion TRUE), run
\* by thread t from the fields s0, up to the blocking connect().  The callers
\* are never a thread that _stop_peer_connection joins.
Refuses_never(s0, addr, onion) == FALSE
Refuses(s0, addr, onion) == s0.connected \/ (~onion /\ ~_validate_ip_address(addr))
ConnectStart(t, s0, sk0, rm0, addr, onion) ==
    IF Refuses(s0, addr, onion)
    THEN LET s1 == AfterRedial(t, s0) IN
         /\ self' = s1
         /\ pc' = [pc EXCEPT ![t] = Continue(t, s1)]
         /\ local' = [local EXCEPT ![t] = NoLocal]
         /\ sock' = sk0
         /\ rem' = rm0
    ELSE LET s1 == _stop_peer_connection(variant, s0, t)
             old == StopCloses(variant, s0, t)
             c == FreshSock(sk0)
         IN /\ c # 0
            /\ self' = [s1 EXCEPT !.peer_socket = c, !._peer_connection_details = addr,
                                  !._is_server_mode = FALSE]
            /\ sock' = [CloseSock(sk0, old) EXCEPT ![c] =
                           [NoSock EXCEPT !.st = "connecting", !.tmo = TRUE, !.addr = addr]]
            /\ rem' = CloseRem(rm0, old)
            /\ pc' = [pc EXCEPT ![t] = "dial"]
            /\ local' = [local EXCEPT ![t] =
                            [NoLocal EXCEPT !.role = "i", !.sk = c,
                                            !.chal = LocalChallenge(c), !.addr = addr]]

\* The user's /connect: connect_to_peer, or connect_to_onion_peer for an
\* onion address.
PeerAddrs == {"ip1", "bad_ip"}
ConnectToPeerAt(addr) ==
    /\ pc[UI] = "idle"
    /\ ConnectStart(UI, self, sock, rem, addr, FALSE)
    /\ UNCHANGED <<variant, msg, io, crypto, known_hosts_file, hosts_data, ui_hosts_data,
                   hs_result, renewal>>

ConnectToPeer == \E addr \in PeerAddrs : ConnectToPeerAt(addr)

\* A connect_to_onion_peer that dials only when the fingerprint it is given
\* is one of the trust store.
ConnectToOnionPeerAt_pinned(addr, fingerprint) ==
    /\ pc[UI] = "idle"
    /\ ~self.connected
    /\ fingerprint \in get_all_fingerprints(hosts_data)
    /\ ConnectStart(UI, self, sock, rem, addr, TRUE)
    /\ UNCHANGED <<variant, msg, io, crypto, known_hosts_file, hosts_data, ui_hosts_data,
                   hs_result, renewal>>

\* connect_to_onion_peer(onion_address, fingerprint): the body never reads
\* the fingerprint it is given.
ConnectToOnionPeerAt(addr, fingerprint) ==
    /\ pc[UI] = "idle"
    /\ ~self.connected
    /\ ConnectStart(UI, self, sock, rem, addr, TRUE)
    /\ UNCHANGED <<variant, msg, io, crypto, known_hosts_file, hosts_data, ui_hosts_data,
                   hs_result, renewal>>

ConnectToOnionPeer ==
    \E addr \in OnionAddrs : \E fingerprint \in {"FA", "FB"} :
        ConnectToOnionPeerAt(addr, fingerprint)

\* connect() of thread t returned: the remote end accepted and the handshake
\* starts with the initiator's first send, or connect() raised (refused,
\* timed out, socket closed under it).
DialResult(t) ==
    /\ pc[t] = "dial"
    /\ LET c == local[t].sk
           ps == self.peer_socket
       IN
       \/ /\ sock[c].st = "connecting"
          /\ ps # 0
          /\ \E id \in DialIdents(local[t].addr) :
               LET sk1 == [sock EXCEPT ![c].st = "open", ![c].tmo = FALSE]
                   sk2 == SetTimeout(sk1, ps, variant = "legacy")
               IN /\ sock' = SendFrames(sk2, ps, Wire(variant, HsFirstSend(variant, local[t])))
                  /\ rem' = [rem EXCEPT ![c] = [NoRem EXCEPT !.id = id, !.st = "live", !.pc = "r1"]]
          /\ pc' = [pc EXCEPT ![t] = "hs1"]
          /\ local' = [local EXCEPT ![t].sk = ps]
          /\ UNCHANGED <<self, renewal>>
       \/ LET s1 == AfterRedial(t, _close_peer_socket(self)) IN
          /\ renewal' = RenewalDone(t)
          /\ self' = s1
          /\ sock' = CloseSock(CloseSock(sock, c), ps)
          /\ rem' = CloseRem(CloseRem(rem, c), ps)
          /\ pc' = [pc EXCEPT ![t] = Continue(t, s1)]
          /\ local' = [local EXCEPT ![t] = NoLocal]
    /\ UNCHANGED <<variant, msg, io, crypto, known_hosts_file, hosts_data, ui_hosts_data,
                   hs_result>>

\* ---------------------------------------------------- _receive_messages
\* The receive loop of thread t has left its while: legacy ends with
\* connected = False and _close_peer_socket(); mono and mixin just return.
RxEnd(t, s1, sk1, rm1) ==
    /\ IF variant = "legacy"
       THEN /\ self' = [s1 EXCEPT !.connected = FALSE, !.peer_socket = 0]
            /\ sock' = CloseSock(sk1, s1.peer_socket)
            /\ rem' = CloseRem(rm1, s1.peer_socket)
       ELSE /\ self' = s1
            /\ sock' = sk1
            /\ rem' = rm1
    /\ pc' = [pc EXCEPT ![t] = "done"]
    /\ local' = [local EXCEPT ![t] = NoLocal]

\* The top of the while: the loop condition, the test of peer_socket
\* (legacy: with settimeout(1.0)), and the next _receive_raw.
RxNext(t, s1, sk1, rm1) ==
    IF s1.connected /\ ~s1._stop_flag /\ s1.peer_socket # 0
    THEN /\ self' = s1
         /\ sock' = IF variant = "legacy" THEN SetTimeout(sk1, s1.peer_socket, TRUE) ELSE sk1
         /\ rem' = rm1
         /\ pc' = [pc EXCEPT ![t] = "recv"]
         /\ local' = [local EXCEPT ![t] = [NoLocal EXCEPT !.sk = s1.peer_socket]]
    ELSE RxEnd(t, s1, sk1, rm1)

\* A receive loop that only breaks where it should call self.stop().
RxStop_break(t, s1, sk1, rm1) == RxEnd(t, s1, sk1, rm1)

\* self.stop() called from the receive loop (mono, mixin): the session is
\* torn down; the join of the calling thread raises, the loop's handler
\* catches it and breaks.  `stopped` records that the thread ended this way.
RxStop(t, s1, sk1, rm1) ==
    /\ self' = _stop_peer_connection(variant, s1, t)
    /\ sock' = CloseSock(sk1, StopCloses(variant, s1, t))
    /\ rem' = CloseRem(rm1, StopCloses(variant, s1, t))
    /\ pc' = [pc EXCEPT ![t] = "done"]
    /\ local' = [local EXCEPT ![t] = [NoLocal EXCEPT !.stopped = TRUE]]

\* What the remote end of an established session may send.
SessionInputs(c) ==
    LET key == _derive_session_key(SigningKey(rem[c].id), LocalKey) IN
    {encrypt_message(key, "chat"), encrypt_message(key, "__DISCONNECT__"),
     encrypt_message(NoSession, "garbage")}

\* One frame came out of _receive_raw in the receive loop.
RxFrame(t, f, sk1) ==
    CASE variant = "legacy" ->
           IF Decrypts(crypto, f)
           THEN /\ self._message_count < MaxCount
                /\ Traffic(sk1, local[t].sk) < MaxCount
                /\ RxNext(t, [self EXCEPT !._message_count = @ + 1],
                          Delivered(sk1, local[t].sk), rem)
           ELSE RxEnd(t, self, sk1, rem)
      [] variant = "mono" ->
           IF ~Decrypts(crypto, f)
           THEN IF self._stop_flag THEN RxNext(t, self, sk1, rem) ELSE RxEnd(t, self, sk1, rem)
           ELSE IF f.k = "__DISCONNECT__" THEN RxStop(t, self, sk1, rem)
           ELSE /\ self._message_count < MaxCount
                /\ Traffic(sk1, local[t].sk) < MaxCount
                /\ RxNext(t, [self EXCEPT !._message_count = @ + 1],
                          Delivered(sk1, local[t].sk), rem)
      [] OTHER ->
           \* mixin: _receive_raw returned a pair, decrypt_message raises
           IF self._stop_flag THEN RxNext(t, self, sk1, rem) ELSE RxEnd(t, self, sk1, rem)

\* The receive thread starts.
RxLoop(t) ==
    /\ t \in RxThreads
    /\ pc[t] = "loop"
    /\ RxNext(t, self, sock, rem)
    /\ UNCHANGED <<variant, msg, io, crypto, known_hosts_file, hosts_data, ui_hosts_data,
                   hs_result, renewal>>

\* The peer of the established session sends the message f and the
\* _receive_raw of the receive loop returns it.
RxRecvSent(t, f) ==
    /\ t \in RxThreads
    /\ pc[t] = "recv"
    /\ LET c == local[t].sk IN
       /\ c # 0 /\ sock[c].st = "open" /\ sock[c].inb = <<>>
       /\ rem[c].st = "live" /\ rem[c].pc = "est"
       /\ f \in SessionInputs(c)
       /\ RxFrame(t, _send_raw(variant, f), sock)
    /\ UNCHANGED <<variant, msg, io, crypto, known_hosts_file, hosts_data, ui_hosts_data,
                   hs_result, renewal>>

\* _receive_raw of the receive loop returns a frame.
RxRecv(t) ==
    /\ t \in RxThreads
    /\ pc[t] = "recv"
    /\ local[t].sk # 0
    /\ \E f \in SessionInputs(local[t].sk) : RxRecvSent(t, f)

\* _receive_raw of the receive loop ends without a frame: the peer closed,
\* or the socket was closed under the loop.  legacy raises and breaks; mono
\* breaks on the empty result; mixin calls self.stop() and breaks.
RxClosed(t) ==
    /\ t \in RxThreads
    /\ pc[t] = "recv"
    /\ SockGone(local[t].sk) \/ PeerClosed(local[t].sk)
    /\ IF variant = "mixin" THEN RxStop(t, self, sock, rem) ELSE RxEnd(t, self, sock, rem)
    /\ UNCHANGED <<variant, msg, io, crypto, known_hosts_file, hosts_data, ui_hosts_data,
                   hs_result, renewal>>

\* _receive_raw of the receive loop runs into the socket's timeout: legacy
\* continues; the others get b'' from _receive_raw as for a closed socket.
RxTimeout(t) ==
    /\ t \in RxThreads
    /\ pc[t] = "recv"
    /\ TimedOut(local[t].sk)
    /\ CASE variant = "legacy" -> RxNext(t, self, sock, rem)
         [] variant = "mono" -> RxEnd(t, self, sock, rem)
         [] OTHER -> RxStop(t, self, sock, rem)
    /\ UNCHANGED <<variant, msg, io, crypto, known_hosts_file, hosts_data, ui_hosts_data,
                   hs_result, renewal>>

\* ------------------------------------------------------------ renewal
\* Time passes: RENEW_AFTER_MINUTES minutes after _last_renewal_time.
Tick ==
    /\ self._last_renewal_time = "fresh"
    /\ self' = [self EXCEPT !._last_renewal_time = "expired"]
    /\ UNCHANGED <<variant, msg, io, crypto, known_hosts_file, hosts_data, ui_hosts_data,
                   sock, rem, pc, local, hs_result, renewal>>

\* The lowest legacy reconnection thread not started yet (0 when none is left).
FreshTrig ==
    IF \E k \in Trigs : pc[Trig(k)] = "none"
    THEN CHOOSE k \in Trigs : pc[Trig(k)] = "none" /\ \A j \in Trigs : j < k => pc[Trig(j)] # "none"
    ELSE 0

\* The renewal thread starts (mono, mixin): the loop condition, then sleep(60).
MonLoop(t) ==
    /\ t \in MonThreads
    /\ variant # "legacy"
    /\ pc[t] = "loop"
    /\ pc' = [pc EXCEPT ![t] = Continue(t, self)]
    /\ UNCHANGED <<variant, msg, io, self, crypto, known_hosts_file, hosts_data, ui_hosts_data,
                   sock, rem, local, hs_result, renewal>>

\* legacy _renewal_monitor, one turn of the loop up to sleep(5): when a
\* threshold is reached and no reconnection is flagged, it sets the flag and
\* starts a thread running _trigger_reconnection.
MonRun(t) ==
    /\ t \in MonThreads
    /\ variant = "legacy"
    /\ pc[t] \in {"loop", "sleep"}
    /\ IF self._stop_flag \/ ~self.connected
       THEN /\ pc' = [pc EXCEPT ![t] = "done"]
            /\ UNCHANGED self
       ELSE IF _should_renew_connection(variant, self) /\ ~self._reconnect_in_progress
       THEN /\ FreshTrig # 0
            /\ self' = [self EXCEPT !._reconnect_in_progress = TRUE]
            /\ pc' = [pc EXCEPT ![t] = "sleep", ![Trig(FreshTrig)] = "start"]
       ELSE /\ pc' = [pc EXCEPT ![t] = "sleep"]
            /\ UNCHANGED self
    /\ UNCHANGED <<variant, msg, io, crypto, known_hosts_file, hosts_data, ui_hosts_data,
                   sock, rem, local, hs_result, renewal>>

\* mono and mixin _renewal_monitor after sleep(60): _should_renew_connection
\* and, inline, _trigger_reconnection up to its next blocking call.
MonWake(t) ==
    /\ t \in MonThreads
    /\ variant # "legacy"
    /\ pc[t] = "sleep"
    /\ IF ~_should_renew_connection(variant, self) \/ self._reconnect_in_progress
       THEN /\ pc' = [pc EXCEPT ![t] = Continue(t, self)]
            /\ UNCHANGED <<self, sock, rem, local, renewal>>
       ELSE LET old_peer_details == self._peer_connection_details
                old_is_server == self._is_server_mode
                s1 == _stop_peer_connection(variant, [self EXCEPT !._reconnect_in_progress = TRUE], t)
                sk1 == CloseSock(sock, self.peer_socket)
                rm1 == CloseRem(rem, self.peer_socket)
                log == [NoRenewal EXCEPT !.st = "running", !.server = old_is_server,
                                         !.addr = old_peer_details]
                onion == _is_onion_address(old_peer_details)
            IN
            IF JoinRaises(self, t)
            THEN \* RuntimeError out of _stop_peer_connection: finally, then the thread ends
                 /\ self' = [s1 EXCEPT !._reconnect_in_progress = FALSE]
                 /\ sock' = sk1
                 /\ rem' = rm1
                 /\ pc' = [pc EXCEPT ![t] = "done"]
                 /\ renewal' = [log EXCEPT !.st = "done"]
                 /\ UNCHANGED local
            ELSE IF old_is_server
            THEN /\ self' = s1
                 /\ sock' = sk1
                 /\ rem' = rm1
                 /\ pc' = [pc EXCEPT ![t] = "wait"]
                 /\ renewal' = log
                 /\ UNCHANGED local
            ELSE IF old_peer_details = NoAddr
            THEN /\ self' = [s1 EXCEPT !._reconnect_in_progress = FALSE]
                 /\ sock' = sk1
                 /\ rem' = rm1
                 /\ pc' = [pc EXCEPT ![t] = Continue(t, s1)]
                 /\ renewal' = [log EXCEPT !.st = "done"]
                 /\ UNCHANGED local
            ELSE /\ ConnectStart(t, s1, sk1, rm1, old_peer_details, onion)
                 /\ renewal' = IF Refuses(s1, old_peer_details, onion)
                               THEN [log EXCEPT !.st = "done"]
                               ELSE [log EXCEPT !.dialed = old_peer_details, !.socks = onion]
    /\ UNCHANGED <<variant, msg, io, crypto, known_hosts_file, hosts_data, ui_hosts_data, hs_result>>

\* mono and mixin _trigger_reconnection of an acceptor after sleep(2): the
\* finally clause, then back in the monitor's loop.
MonWaitEnd(t) ==
    /\ t \in MonThreads
    /\ pc[t] = "wait"
    /\ LET s1 == [self EXCEPT !._reconnect_in_progress = FALSE] IN
       /\ self' = s1
       /\ pc' = [pc EXCEPT ![t] = Continue(t, s1)]
    /\ renewal' = [renewal EXCEPT !.st = "done"]
    /\ UNCHANGED <<variant, msg, io, crypto, known_hosts_file, hosts_data, ui_hosts_data,
                   sock, rem, local, hs_result>>

\* legacy _trigger_reconnection up to sleep(1): it notes the peer details
\* and the mode, then calls _stop_peer_connection.
TrigStart(t) ==
    /\ t \in TrigThreads
    /\ pc[t] = "start"
    /\ self' = _stop_peer_connection(variant, self, t)
    /\ sock' = CloseSock(sock, StopCloses(variant, self, t))
    /\ rem' = CloseRem(rem, StopCloses(variant, self, t))
    /\ pc' = [pc EXCEPT ![t] = "sleep"]
    /\ local' = [local EXCEPT ![t] =
                    [NoLocal EXCEPT !.addr = self._peer_connection_details,
                                    !.role = IF self._is_server_mode THEN "server" ELSE "client"]]
    /\ renewal' = [NoRenewal EXCEPT !.st = "running", !.server = self._is_server_mode,
                                    !.addr = self._peer_connection_details]
    /\ UNCHANGED <<variant, msg, io, crypto, known_hosts_file, hosts_data, ui_hosts_data, hs_result>>

\* legacy _trigger_reconnection after sleep(1): an acceptor waits for the
\* peer, a dialer calls connect_to_peer; the flag is cleared at the end.
TrigWake(t) ==
    /\ t \in TrigThreads
    /\ pc[t] = "sleep"
    /\ IF local[t].addr = NoAddr \/ local[t].role = "server"
       THEN /\ self' = [self EXCEPT !._reconnect_in_progress = FALSE]
            /\ pc' = [pc EXCEPT ![t] = "done"]
            /\ local' = [local EXCEPT ![t] = NoLocal]
            /\ renewal' = [renewal EXCEPT !.st = "done"]
            /\ UNCHANGED <<sock, rem>>
       ELSE /\ ConnectStart(t, self, sock, rem, local[t].addr, FALSE)
            /\ renewal' = IF Refuses(self, local[t].addr, FALSE)
                          THEN [renewal EXCEPT !.st = "done"]
                          ELSE [renewal EXCEPT !.dialed = local[t].addr, !.socks = FALSE]
    /\ UNCHANGED <<variant, msg, io, crypto, known_hosts_file, hosts_data, ui_hosts_data, hs_result>>

\* ------------------------------------------------------ user commands
\* Closing the listening socket resets what waits in its backlog.
CloseBacklog(sk) == [c \in Conns |-> IF sk[c].st = "backlog" THEN ClosedSock ELSE sk[c]]
CloseBacklogRem(sk, rm) == [c \in Conns |-> IF sk[c].st = "backlog" THEN NoRem ELSE rm[c]]

\* stop(): mono and mixin end the peer session only; legacy also raises the
\* stop flag and closes the listening socket.
Stop ==
    /\ pc[UI] = "idle"
    /\ IF variant = "legacy"
       THEN /\ self' = [self EXCEPT !._stop_flag = TRUE, !.connected = FALSE,
                                    !._server_running = FALSE, !.peer_socket = 0,
                                    !.socket = "None"]
            /\ sock' = CloseBacklog(CloseSock(sock, self.peer_socket))
            /\ rem' = CloseBacklogRem(sock, CloseRem(rem, self.peer_socket))
       ELSE /\ self' = _stop_peer_connection(variant, self, UI)
            /\ sock' = CloseSock(sock, StopCloses(variant, self, UI))
            /\ rem' = CloseRem(rem, StopCloses(variant, self, UI))
    /\ UNCHANGED <<variant, msg, io, crypto, known_hosts_file, hosts_data, ui_hosts_data,
                   pc, local, hs_result, renewal>>

\* close_server() (mono, mixin)
CloseServer ==
    /\ pc[UI] = "idle"
    /\ variant # "legacy"
    /\ self._server_running
    /\ self' = [self EXCEPT !._server_running = FALSE, !.socket = "None"]
    /\ sock' = CloseBacklog(sock)
    /\ rem' = CloseBacklogRem(sock, rem)
    /\ UNCHANGED <<variant, msg, io, crypto, known_hosts_file, hosts_data, ui_hosts_data,
                   pc, local, hs_result, renewal>>

\* add_host: the entry of the address is set to the fingerprint.
add_host(store, addr, fp) == {e \in store : e[1] # addr} \cup {<<addr, fp>>}

\* /addHost.  legacy: known_hosts_manager.add_host loads the file, adds and
\* saves.  mono, mixin: console_ui.hosts_manager adds to its own data and
\* saves them; the connection's KnownHostsManager is another object.
AddInputs == {<<"ip1", "FB">>}
AddHost(addr, fp) ==
    /\ pc[UI] = "idle"
    /\ IF variant = "legacy"
       THEN /\ known_hosts_file' =
                   [exists |-> TRUE, hosts |-> add_host(_load_data(known_hosts_file), addr, fp)]
            /\ UNCHANGED ui_hosts_data
       ELSE /\ ui_hosts_data' = add_host(ui_hosts_data, addr, fp)
            /\ known_hosts_file' = [exists |-> TRUE, hosts |-> add_host(ui_hosts_data, addr, fp)]
    /\ known_hosts_file' # known_hosts_file
    /\ UNCHANGED <<variant, msg, io, self, crypto, hosts_data, sock, rem, pc, local,
                   hs_result, renewal>>

\* send_message.  Not connected: mono and mixin return; legacy returns
\* while a reconnection is flagged and raises RuntimeError otherwise.
\* Connected: legacy counts the message, and when the send raises it flags
\* a reconnection and starts _trigger_reconnection unless one is flagged;
\* mono and mixin send and change nothing else.
SendMessage ==
    /\ pc[UI] = "idle"
    /\ IF ~self.connected \/ self.peer_socket = 0
       THEN /\ pc' = IF variant = "legacy" /\ ~self._reconnect_in_progress
                     THEN [pc EXCEPT ![UI] = "raised"] ELSE pc
            /\ UNCHANGED <<self, sock>>
       ELSE /\ crypto.session_key # NoSession
            /\ IF variant # "legacy"
               THEN /\ sock[self.peer_socket].st = "open"
                    /\ Traffic(sock, self.peer_socket) < MaxCount
                    /\ sock' = Written(sock, self.peer_socket)
                    /\ UNCHANGED <<self, pc>>
               ELSE \/ /\ self._message_count < MaxCount
                       /\ sock[self.peer_socket].st = "open"
                       /\ Traffic(sock, self.peer_socket) < MaxCount
                       /\ self' = [self EXCEPT !._message_count = @ + 1]
                       /\ sock' = Written(sock, self.peer_socket)
                       /\ UNCHANGED pc
                    \/ /\ rem[self.peer_socket].st = "closed"
                       /\ ~self._reconnect_in_progress
                       /\ FreshTrig # 0
                       /\ self' = [self EXCEPT !._reconnect_in_progress = TRUE]
                       /\ pc' = [pc EXCEPT ![Trig(FreshTrig)] = "start"]
                       /\ UNCHANGED sock
    /\ UNCHANGED <<variant, msg, io, crypto, known_hosts_file, hosts_data, ui_hosts_data,
                   rem, local, hs_result, renewal>>

\* The console's input loop catches what a call raised and goes on.
UiCatch ==
    /\ pc[UI] = "raised"
    /\ pc' = [pc EXCEPT ![UI] = "idle"]
    /\ UNCHANGED <<variant, msg, io, self, crypto, known_hosts_file, hosts_data,
                   ui_hosts_data, sock, rem, local, hs_result, renewal>>

\* ------------------------------------------------ framing, byte by byte
\* Payload bytes: ':' and 'A'.
Colon == 58
PayloadBytes == {Colon, 65}
Payloads == UNION {[1..n -> PayloadBytes] : n \in 0..MaxPayload}
GEN == <<71, 69, 78>>

\* int.to_bytes(4, 'big') and int.from_bytes(bytes, 'big').
to_bytes(n) == <<(n \div 16777216) % 256, (n \div 65536) % 256, (n \div 256) % 256, n % 256>>
RECURSIVE from_bytes(_)
from_bytes(bs) ==
    IF bs = <<>> THEN 0 ELSE from_bytes(SubSeq(bs, 1, Len(bs) - 1)) * 256 + bs[Len(bs)]

\* The buffers _send_raw hands to the socket, one per call.  legacy: one
\* sendall of size + data; mono: send(length) and send(data); mixin: the
\* same with transmission_type + ':' in front of the data.
_send_raw_buffers(v, p) ==
    CASE v = "legacy" -> <<to_bytes(Len(p)) \o p>>
      [] v = "mono" -> <<to_bytes(Len(p)), p>>
      [] OTHER -> <<to_bytes(Len(GEN \o <<Colon>> \o p)), GEN \o <<Colon>> \o p>>

\* How many bytes of buffer b one call writes.  sendall writes all of them;
\* send writes at least one and reports how many, which _send_raw does not
\* look at.
send_writes(v, b) ==
    IF v = "legacy" \/ b = <<>> THEN {Len(b)} ELSE 1..Len(b)

\* How many bytes recv(n) returns while bytes are there: at least one, at
\* most n.
recv_reads(n, wire) == 1..(IF n < Len(wire) THEN n ELSE Len(wire))

\* data_raw.split(b':', 1): the place of the first ':' (0: none).
FirstColon(d) ==
    IF \E i \in 1..Len(d) : d[i] = Colon
    THEN CHOOSE i \in 1..Len(d) : d[i] = Colon /\ \A j \in 1..(i - 1) : d[j] # Colon
    ELSE 0

\* What _receive_raw returns once the data is complete.  mixin returns the
\* pair (data, transmission_type); without a ':' the unpacking raises and
\* the handler returns b''.
_receive_raw_returns(v, d) ==
    IF v # "mixin" THEN [kind |-> "bytes", data |-> d]
    ELSE IF FirstColon(d) = 0 THEN [kind |-> "bytes", data |-> <<>>]
    ELSE [kind |-> "pair", data |-> SubSeq(d, FirstColon(d) + 1, Len(d)),
          tt |-> SubSeq(d, 1, FirstColon(d) - 1)]

\* What _receive_raw does when a recv returns zero bytes: legacy raises
\* RuntimeError, mono and mixin return b''.
_receive_raw_closed(v) ==
    IF v = "legacy" THEN [kind |-> "raise"] ELSE [kind |-> "bytes", data |-> <<>>]

\* What the receive loop does with the result of _receive_raw.  mono and
\* mixin leave the loop on an empty result; legacy hands it to
\* decrypt_message, which raises on a frame shorter than a nonce, and the
\* handler leaves the loop; mixin takes the pair for bytes and raises too.
LoopContinues(v, out) ==
    /\ out.kind = "bytes"
    /\ out.data # <<>>

\* _send_raw(p) begins at one end and _receive_raw at the other.
StartIo(v, p) ==
    [NoIo EXCEPT !.p = p, !.tx = _send_raw_buffers(v, p), !.rx = "len"]

\* The next send or sendall call of _send_raw.
IoSend ==
    /\ io.tx # <<>>
    /\ ~io.closed
    /\ \E k \in send_writes(variant, Head(io.tx)) :
          io' = [io EXCEPT !.tx = Tail(@), !.wire = @ \o SubSeq(Head(io.tx), 1, k)]
    /\ UNCHANGED <<variant, msg, self, crypto, known_hosts_file, hosts_data, ui_hosts_data,
                   sock, rem, pc, local, hs_result, renewal>>

\* The next send or sendall call of the _send_raw of the other thread.
IoSend2 ==
    /\ io.tx2 # <<>>
    /\ ~io.closed
    /\ \E k \in send_writes(variant, Head(io.tx2)) :
          io' = [io EXCEPT !.tx2 = Tail(@), !.wire = @ \o SubSeq(Head(io.tx2), 1, k)]
    /\ UNCHANGED <<variant, msg, self, crypto, known_hosts_file, hosts_data, ui_hosts_data,
                   sock, rem, pc, local, hs_result, renewal>>

\* The sender closes its end.
IoClose ==
    /\ io.rx # "done"
    /\ ~io.closed
    /\ io' = [io EXCEPT !.closed = TRUE, !.tx = <<>>]
    /\ UNCHANGED <<variant, msg, self, crypto, known_hosts_file, hosts_data, ui_hosts_data,
                   sock, rem, pc, local, hs_result, renewal>>

\* length_bytes = recv(4), one call, and int.from_bytes of what came.
IoRecvLen ==
    /\ io.rx = "len"
    /\ io.wire # <<>>
    /\ \E k \in recv_reads(4, io.wire) :
          LET length == from_bytes(SubSeq(io.wire, 1, k))
              rest == SubSeq(io.wire, k + 1, Len(io.wire))
          IN io' = IF length = 0
                   THEN [io EXCEPT !.wire = rest, !.rx = "done",
                                   !.out = _receive_raw_returns(variant, <<>>)]
                   ELSE [io EXCEPT !.wire = rest, !.rx = "data", !.need = length]
    /\ UNCHANGED <<variant, msg, self, crypto, known_hosts_file, hosts_data, ui_hosts_data,
                   sock, rem, pc, local, hs_result, renewal>>

\* chunk = recv(length - len(data)) in the loop that collects the data.
IoRecvData ==
    /\ io.rx = "data"
    /\ io.wire # <<>>
    /\ \E k \in recv_reads(io.need - Len(io.buf), io.wire) :
          LET data == io.buf \o SubSeq(io.wire, 1, k)
              rest == SubSeq(io.wire, k + 1, Len(io.wire))
          IN io' = IF Len(data) = io.need
                   THEN [io EXCEPT !.wire = rest, !.rx = "done", !.buf = data,
                                   !.out = _receive_raw_returns(variant, data)]
                   ELSE [io EXCEPT !.wire = rest, !.buf = data]
    /\ UNCHANGED <<variant, msg, self, crypto, known_hosts_file, hosts_data, ui_hosts_data,
                   sock, rem, pc, local, hs_result, renewal>>

\* A recv of either phase returns zero bytes: the peer has closed and
\* nothing is left to read.
IoRecvEof ==
    /\ io.rx \in {"len", "data"}
    /\ io.wire = <<>>
    /\ io.closed
    /\ io' = [io EXCEPT !.rx = "done", !.eof = TRUE, !.out = _receive_raw_closed(variant)]
    /\ UNCHANGED <<variant, msg, self, crypto, known_hosts_file, hosts_data, ui_hosts_data,
                   sock, rem, pc, local, hs_result, renewal>>

\* ------------------------------------------------------ message layer
\* One established session seen from the receive loop and from the commands
\* of the caller.  A decrypted payload is a sequence of atoms: a control
\* token, or one character of text or data.  On the wire a chat message and
\* a file chunk are the same thing, nonce and ciphertext of some bytes
\* (crypto.py 169-196); only the mode of the receive loop tells them apart.
\* Frames arrive whole here; their bytes are the matter of _send_raw and
\* _receive_raw above.

\* len() of a payload: a token counts its characters.
RECURSIVE len(_)
len(m) ==
    IF m = <<>> THEN 0
    ELSE LET a == Head(m)
             w == CASE a \in {"__PING__", "__PONG__"} -> 8
                    [] a = "__FILE_END__" -> 12
                    [] a = "__DISCONNECT__" -> 14
                    [] a = "__FILE_ACCEPT__" -> 15
                    [] a = "__FILE_TRANSFER__" -> 17
                    [] a \in {"__FILE_TRANSFER_ACCEPTED__",
                              "__FILE_TRANSFER_DECLINED__"} -> 26
                    [] OTHER -> 1
         IN  w + len(Tail(m))

\* What the peer may send in a session with file transfers: the control
\* vocabulary, announcements of the files a (0 or 2 bytes) and b (1 byte),
\* and two texts, which are chat messages or file chunks.
MsgPayloads ==
    { <<"__PING__", "0">>, <<"__DISCONNECT__">>,
      <<"__FILE_TRANSFER__", "a", "0">>, <<"__FILE_TRANSFER__", "a", "2">>,
      <<"__FILE_TRANSFER__", "b", "1">>,
      <<"__FILE_TRANSFER_ACCEPTED__">>, <<"__FILE_TRANSFER_DECLINED__">>,
      <<"__FILE_ACCEPT__">>, <<"__FILE_END__">>,
      <<"x">>, <<"y", "x">> }

\* What the peer may send in a session with pings.
PingPayloads ==
    { <<t, i>> : t \in {"__PING__", "__PONG__"}, i \in {"0", "1"} } \cup {<<"x">>}

\* One pass of the receive loop in normal mode over the decrypted payload m
\* (<<>>: _receive_raw returned b''), for generation v.  `in` looks for a
\* token anywhere in the payload, startswith at its head.  In the mixin
\* generation _handle_file_transfer is the one MessageMixin defines, which
\* knows __FILE_ACCEPT__ only; mono's knows __FILE_ACCEPT__ and __FILE_END__
\* among the payloads here and reports them without counting.
Dispatch(v, st, m) ==
    LET s0 == [st EXCEPT !.rcvd = Append(@, m), !.frames = @ + 1]
        has(tok) == \E k \in 1..Len(m) : m[k] = tok
        idx == CHOOSE k \in 1..Len(m) :
                   /\ m[k] = "__FILE_TRANSFER__"
                   /\ \A j \in 1..(k - 1) : m[j] # "__FILE_TRANSFER__"
        file_info == SubSeq(m, idx + 1, Len(m))
        file_size == CASE file_info[2] = "0" -> 0
                       [] file_info[2] = "1" -> 1
                       [] file_info[2] = "2" -> 2
        pending == st._file_receive_info.file_obj # 0
    IN  IF m = <<>>
        THEN [st EXCEPT !.connected = FALSE, !.loop = "ended"]
        ELSE IF v = "mixin" /\ has("__FILE_TRANSFER_ACCEPTED__") /\ pending
        THEN [s0 EXCEPT !._receiving_file = TRUE]
        ELSE IF v = "mixin" /\ has("__FILE_TRANSFER__") /\ Len(file_info) >= 2
        THEN IF file_info[2] \notin {"0", "1", "2"}
             THEN s0
             ELSE [s0 EXCEPT
                      !.handles = Append(@, [name |-> file_info[1], open |-> TRUE]),
                      !.disk[file_info[1]] = [exists |-> TRUE, bytes |-> <<>>],
                      !._file_receive_info =
                          [name |-> file_info[1], size |-> file_size,
                           received |-> 0, file_obj |-> Len(st.handles) + 1],
                      !.raw = Append(@, m)]
        ELSE IF Head(m) = "__PING__"
        THEN [s0 EXCEPT !.sent = Append(@, <<"__PONG__">> \o Tail(m))]
        ELSE IF Head(m) = "__PONG__"
        THEN IF Len(m) = 2 /\ m[2] \in st._ping_responses.keys
             THEN [s0 EXCEPT !._ping_responses.times =
                       {p \in @ : p[1] # m[2]} \cup {<<m[2], st.clock>>}]
             ELSE s0
        ELSE IF Head(m) = "__FILE_ACCEPT__"
        THEN IF v = "mixin" /\ pending
             THEN [s0 EXCEPT !._receiving_file = TRUE]
             ELSE s0
        ELSE IF v = "mono" /\ Head(m) = "__FILE_END__"
        THEN s0
        ELSE IF m = <<"__DISCONNECT__">>
        THEN [s0 EXCEPT !.connected = FALSE, !.loop = "ended"]
        ELSE [s0 EXCEPT !._message_count = @ + 1, !.chat = Append(@, m)]

\* One pass of the receive loop in file receiving mode over the frame m.
ReceiveChunk(st, m) ==
    LET info == st._file_receive_info
        got == info.received + len(m)
        s1 == [st EXCEPT !.frames = @ + 1,
                         !.disk[info.name].bytes = @ \o m,
                         !._file_receive_info.received = got]
    IN  IF m = <<>>
        THEN [st EXCEPT !._receiving_file = FALSE, !.loop = "ended",
                        !.handles[info.file_obj].open = FALSE]
        ELSE IF info.size = 0
        THEN [s1 EXCEPT !.loop = "ended"]
        ELSE IF got >= info.size
        THEN [s1 EXCEPT !.handles[info.file_obj].open = FALSE,
                        !.FILE_TRANSFER_BOOL = FALSE,
                        !.FILE_TRANSFER_PROCEDURE = FALSE,
                        !._receiving_file = FALSE,
                        !._file_receive_info = NoMsg._file_receive_info]
        ELSE s1

\* The receive thread takes one pass of its loop; P: what the peer may send.
_receive_messages(P) ==
    /\ msg.connected
    /\ msg.loop = "run"
    /\ IF msg._receiving_file /\ ~msg.FILE_TRANSFER_BOOL
       THEN msg' = [msg EXCEPT !._receiving_file = FALSE,
                               !._file_receive_info = NoMsg._file_receive_info]
       ELSE \E m \in P \cup {<<>>} :
                /\ m # <<>> => msg.frames < MaxFrames
                /\ msg' = IF msg._receiving_file
                          THEN ReceiveChunk(msg, m)
                          ELSE Dispatch(variant, msg, m)
    /\ UNCHANGED <<variant, io, self, crypto, known_hosts_file, hosts_data, ui_hosts_data,
                   sock, rem, pc, local, hs_result, renewal>>

\* /send_file: the file a of 2 bytes is announced.
handle_send_file_command ==
    /\ msg.connected
    /\ ~msg.FILE_TRANSFER_PROCEDURE
    /\ Len(msg.sent) < MaxFrames
    /\ msg' = [msg EXCEPT !.FILE_TRANSFER_PROCEDURE = TRUE,
                          !.sent = Append(@, <<"__FILE_TRANSFER__", "a", "2">>)]
    /\ UNCHANGED <<variant, io, self, crypto, known_hosts_file, hosts_data, ui_hosts_data,
                   sock, rem, pc, local, hs_result, renewal>>

\* The caller hands a text its message_callback was given to
\* handle_file_transfer_request, and the text holds an announcement.
handle_file_transfer_request ==
    /\ ~msg.FILE_TRANSFER_BOOL
    /\ \E t \in {msg.raw[k] : k \in 1..Len(msg.raw)}
              \cup {msg.chat[k] : k \in 1..Len(msg.chat)} :
           /\ \E k \in 1..Len(t) : t[k] = "__FILE_TRANSFER__" /\ Len(t) >= k + 2
    /\ msg' = [msg EXCEPT !.FILE_TRANSFER_BOOL = TRUE]
    /\ UNCHANGED <<variant, io, self, crypto, known_hosts_file, hosts_data, ui_hosts_data,
                   sock, rem, pc, local, hs_result, renewal>>

\* /__FILE_ACCEPT__ while a transfer waits for the answer.
handle_file_accept_command ==
    /\ msg.FILE_TRANSFER_BOOL
    /\ msg.connected
    /\ Len(msg.sent) < MaxFrames
    /\ msg' = [msg EXCEPT
                  !.sent = Append(@, <<"__FILE_TRANSFER_ACCEPTED__">>),
                  !.accepted = TRUE,
                  !._receiving_file =
                      IF variant = "mixin" /\ msg._file_receive_info.file_obj # 0
                      THEN TRUE ELSE @]
    /\ UNCHANGED <<variant, io, self, crypto, known_hosts_file, hosts_data, ui_hosts_data,
                   sock, rem, pc, local, hs_result, renewal>>

\* /__FILE_DECLINE__ while a transfer waits for the answer.
handle_file_decline_command ==
    /\ msg.FILE_TRANSFER_BOOL
    /\ msg.connected
    /\ Len(msg.sent) < MaxFrames
    /\ msg' = [msg EXCEPT
                  !.sent = Append(@, <<"__FILE_TRANSFER_DECLINED__">>),
                  !.declined = TRUE,
                  !.FILE_TRANSFER_BOOL = FALSE,
                  !.FILE_TRANSFER_PROCEDURE = FALSE]
    /\ UNCHANGED <<variant, io, self, crypto, known_hosts_file, hosts_data, ui_hosts_data,
                   sock, rem, pc, local, hs_result, renewal>>

\* A millisecond passes.
ClockTick ==
    /\ msg.clock < MaxClock
    /\ msg' = [msg EXCEPT !.clock = @ + 1]
    /\ UNCHANGED <<variant, io, self, crypto, known_hosts_file, hosts_data, ui_hosts_data,
                   sock, rem, pc, local, hs_result, renewal>>

\* ping_peer up to its wait: the id is the clock in milliseconds as a decimal
\* string.
ping_peer ==
    /\ msg.connected
    /\ msg.ping.pc = "idle"
    /\ Len(msg.pings) < MaxPings
    /\ LET ping_id == <<"0", "1", "2", "3">>[msg.clock + 1]
       IN  msg' = [msg EXCEPT
                      !._ping_responses =
                          [keys |-> @.keys \cup {ping_id},
                           times |-> {p \in @.times : p[1] # ping_id}],
                      !.ping = [pc |-> "wait", id |-> ping_id, start |-> msg.clock],
                      !.pings = Append(@, ping_id),
                      !.sent = Append(@, <<"__PING__", ping_id>>)]
    /\ UNCHANGED <<variant, io, self, crypto, known_hosts_file, hosts_data, ui_hosts_data,
                   sock, rem, pc, local, hs_result, renewal>>

\* ping_peer returns: the response time once the entry of its id holds a
\* time, None when the timeout has run out (some time has passed).
ping_peer_returns ==
    /\ msg.ping.pc = "wait"
    /\ LET mine == {p \in msg._ping_responses.times : p[1] = msg.ping.id}
           pop == [keys |-> msg._ping_responses.keys \ {msg.ping.id},
                   times |-> msg._ping_responses.times \ mine]
       IN  IF mine # {}
           THEN \E p \in mine :
                    msg' = [msg EXCEPT
                               !._ping_responses = pop,
                               !.ping.pc = "idle",
                               !.results = Append(@, [id |-> msg.ping.id, ok |-> TRUE,
                                                      time |-> p[2] - msg.ping.start])]
           ELSE /\ msg.clock > msg.ping.start
                /\ msg' = [msg EXCEPT
                               !._ping_responses = pop,
                               !.ping.pc = "idle",
                               !.results = Append(@, [id |-> msg.ping.id, ok |-> FALSE,
                                                      time |-> 0])]
    /\ UNCHANGED <<variant, io, self, crypto, known_hosts_file, hosts_data, ui_hosts_data,
                   sock, rem, pc, local, hs_result, renewal>>


\* The legacy console calls stop() once, when the user leaves: no call of
\* the user follows it, while the threads run on until the process ends.
UiRuns == variant = "legacy" => ~self._stop_flag

\* The program as its console drives it.  A call of the user that returns
\* at once and changes nothing for the others (start_server on a running
\* server, a refused connect_to_peer, send_message while not connected) is
\* left to stuttering, and no console calls close_server;
\* CallerNext takes these calls too.
Next ==
    \/ UiRuns /\ ~self._server_running /\ StartServer
    \/ \E p \in Peers : RemoteDial(p[1], p[2])
    \/ UiRuns /\ Stop
    \/ UiRuns /\ \E a \in AddInputs : AddHost(a[1], a[2])
    \/ UiRuns /\ self.connected /\ self.peer_socket # 0 /\ SendMessage
    \/ UiRuns /\ \E addr \in PeerAddrs : ~Refuses(self, addr, FALSE) /\ ConnectToPeerAt(addr)
    \/ UiRuns /\ ConnectToOnionPeer
    \/ \E t \in Threads : DialResult(t)
    \/ AcceptConnection
    \/ AcceptExit
    \/ \E t \in Threads : HsRecv(t)
    \/ \E t \in Threads : HsTimeout(t)
    \/ \E t \in RxThreads : RxLoop(t)
    \/ \E t \in RxThreads : RxRecv(t)
    \/ \E t \in RxThreads : RxClosed(t)
    \/ \E t \in RxThreads : RxTimeout(t)
    \/ Tick
    \/ \E t \in MonThreads : MonLoop(t)
    \/ \E t \in MonThreads : MonRun(t)
    \/ \E t \in MonThreads : MonWake(t)
    \/ \E t \in MonThreads : MonWaitEnd(t)
    \/ \E t \in TrigThreads : TrigStart(t)
    \/ \E t \in TrigThreads : TrigWake(t)
    \/ \E c \in Conns : RemoteStep(c)
    \/ \E c \in Conns : RemoteClose(c)

Spec == Init /\ [][Next]_vars

\* One handshake at a time between the instance and a peer that answers
\* promptly over a stream that loses nothing: the server starts, peers dial
\* in or the user dials out while nothing else is under way, and the two ends
\* take their handshake steps.  Every thread that is not blocked takes its
\* next step, and so does the peer.
Quiet ==
    /\ pc[UI] = "idle"
    /\ pc[ACC] \in {"none", "accept"}
    /\ ~self.connected
    /\ \A c \in Conns : sock[c].st \notin {"backlog", "connecting"}

HandshakeNext ==
    \/ StartServer
    \/ Quiet /\ \E p \in Peers : RemoteDial(p[1], p[2])
    \/ Quiet /\ ConnectToPeer
    \/ AcceptConnection
    \/ \E t \in {UI, ACC} : DialResult(t)
    \/ \E t \in {UI, ACC} : HsRecv(t)
    \/ \E c \in Conns : RemoteStep(c)

HandshakeSpec ==
    /\ Init
    /\ [][HandshakeNext]_vars
    /\ WF_vars(AcceptConnection)
    /\ \A t \in {UI, ACC} : WF_vars(DialResult(t)) /\ WF_vars(HsRecv(t))
    /\ \A c \in Conns : WF_vars(RemoteStep(c))

\* The same handshakes with a peer that may fall silent at any step: the
\* threads of the instance take their steps and a receive under a socket
\* timeout runs into it, but nothing makes the peer answer.
SilentPeerNext ==
    \/ HandshakeNext
    \/ \E t \in {UI, ACC} : HsTimeout(t)

SilentPeerSpec ==
    /\ Init
    /\ [][SilentPeerNext]_vars
    /\ WF_vars(AcceptConnection)
    /\ \A t \in {UI, ACC} : WF_vars(DialResult(t)) /\ WF_vars(HsRecv(t)) /\ WF_vars(HsTimeout(t))

\* The calls of any caller of the class taken whole, with the calls that
\* return at once (start_server on a running server, connect_to_peer while
\* connected or to an address that is no IP address, send_message while
\* not connected) and with close_server,
\* around peers that dial in one at a time and answer promptly.
CallerNext ==
    \/ StartServer
    \/ CloseServer
    \/ AcceptExit
    \/ ConnectToPeer
    \/ ConnectToOnionPeer
    \/ SendMessage
    \/ UiCatch
    \/ Quiet /\ \E p \in Peers : RemoteDial(p[1], p[2])
    \/ AcceptConnection
    \/ \E t \in {UI, ACC} : DialResult(t)
    \/ \E t \in {UI, ACC} : HsRecv(t)
    \/ \E c \in Conns : RemoteStep(c)

\* The caller may find no known_hosts.json at all.
CallerInit == Constructed /\ io = NoIo /\ msg = NoMsg

CallerSpec == CallerInit /\ [][CallerNext]_vars

\* One frame from _send_raw at one end to _receive_raw at the other, over a
\* stream that hands the bytes over in pieces of any size and that the sender
\* may close.
FramingInit == Constructed /\ known_hosts_file.exists /\ msg = NoMsg /\ io \in {StartIo(variant, p) : p \in Payloads}

FramingNext == IoSend \/ IoClose \/ IoRecvLen \/ IoRecvData \/ IoRecvEof

FramingSpec == FramingInit /\ [][FramingNext]_vars

\* Two threads of one session each in a _send_raw on the peer socket: the
\* caller in send_message or send_file_data with the payload p, and the
\* receive thread answering a __PING__ with the payload p2.  No lock is
\* taken around _send_raw, so their send calls come in any order; what they
\* write stays on the wire here.
SendersInit ==
    /\ Constructed
    /\ known_hosts_file.exists
    /\ msg = NoMsg
    /\ io \in {[NoIo EXCEPT !.p = p, !.tx = _send_raw_buffers(variant, p),
                            !.p2 = q, !.tx2 = _send_raw_buffers(variant, q)] :
                 p \in Payloads, q \in Payloads}

SendersNext == IoSend \/ IoSend2

SendersSpec == SendersInit /\ [][SendersNext]_vars

\* A session of the mono or mixin generation with file transfers: the
\* receive loop over what the peer sends, and the file commands of the
\* caller, who may or may not hand the announcements it is shown to
\* handle_file_transfer_request.
MessageInit ==
    /\ Constructed
    /\ variant # "legacy"
    /\ known_hosts_file = [exists |-> TRUE, hosts |-> {}]
    /\ io = NoIo
    /\ msg = [NoMsg EXCEPT !.connected = TRUE, !.loop = "run"]

MessageNext ==
    \/ _receive_messages(MsgPayloads)
    \/ handle_send_file_command
    \/ handle_file_transfer_request
    \/ handle_file_accept_command
    \/ handle_file_decline_command

MessageSpec == MessageInit /\ [][MessageNext]_vars

\* ------------------------------------------- pings, statement by statement
\* ping_peer in the caller's thread and the __PONG__ branch of
\* _handle_ping_pong in the receive thread, one statement at a time, with
\* _ping_lock: "free", or the thread that holds it ("caller", "rx").

\* A `with self._ping_lock:` that does not wait for the lock.
_ping_lock_acquire_any(st, th) == TRUE

\* `with self._ping_lock:` of thread th can be entered.
_ping_lock_acquire(st, th) == st._ping_lock = "free"

\* The next statement of ping_peer.  idle: the test of connected and the id;
\* create, poll, final: the three `with self._ping_lock:`; *_locked: their
\* bodies up to the release (create_locked goes on to start_time and
\* send_message); sleep: time.sleep(0.01) and the loop test, which fails
\* once time has passed.
PingPeerStep ==
    /\ msg.connected
    /\ LET pp == msg.ping
           tbl == msg._ping_responses
           mine == {p \in tbl.times : p[1] = pp.id}
           pop == [keys |-> tbl.keys \ {pp.id}, times |-> tbl.times \ mine]
           ping_id == <<"0", "1", "2", "3">>[msg.clock + 1]
       IN  CASE pp.pc = "idle" ->
                  /\ Len(msg.pings) < MaxPings
                  /\ msg' = [msg EXCEPT !.ping = [pc |-> "create", id |-> ping_id, start |-> msg.clock],
                                        !.pings = Append(@, ping_id)]
             [] pp.pc \in {"create", "poll", "final"} ->
                  /\ _ping_lock_acquire(msg, "caller")
                  /\ msg' = [msg EXCEPT !._ping_lock = "caller",
                                        !.ping.pc = CASE pp.pc = "create" -> "create_locked"
                                                      [] pp.pc = "poll" -> "poll_locked"
                                                      [] OTHER -> "final_locked"]
             [] pp.pc = "create_locked" ->
                  msg' = [msg EXCEPT !._ping_responses =
                                         [keys |-> tbl.keys \cup {pp.id}, times |-> tbl.times \ mine],
                                     !._ping_lock = "free",
                                     !.ping.start = msg.clock,
                                     !.ping.pc = "poll",
                                     !.sent = Append(@, <<"__PING__", pp.id>>)]
             [] pp.pc = "poll_locked" ->
                  IF mine # {}
                  THEN \E p \in mine :
                          msg' = [msg EXCEPT !._ping_responses = pop,
                                             !._ping_lock = "free",
                                             !.ping.pc = "idle",
                                             !.results = Append(@, [id |-> pp.id, ok |-> TRUE,
                                                                    time |-> p[2] - pp.start])]
                  ELSE msg' = [msg EXCEPT !._ping_lock = "free", !.ping.pc = "sleep"]
             [] pp.pc = "sleep" ->
                  \/ msg' = [msg EXCEPT !.ping.pc = "poll"]
                  \/ /\ msg.clock > pp.start
                     /\ msg' = [msg EXCEPT !.ping.pc = "final"]
             [] OTHER ->
                  /\ pp.pc = "final_locked"
                  /\ msg' = [msg EXCEPT !._ping_responses = pop,
                                        !._ping_lock = "free",
                                        !.ping.pc = "idle",
                                        !.results = Append(@, [id |-> pp.id, ok |-> FALSE,
                                                               time |-> 0])]
    /\ UNCHANGED <<variant, io, self, crypto, known_hosts_file, hosts_data, ui_hosts_data,
                   sock, rem, pc, local, hs_result, renewal>>

\* The next statement of the __PONG__ branch of _handle_ping_pong in the
\* receive thread.  idle: a __PONG__ with some id has been received; lock:
\* `with self._ping_lock:`; check: `if ping_id in self._ping_responses`;
\* set: the assignment of time.time(), which makes the key if it is not
\* there, and the release.
_handle_ping_pong ==
    /\ msg.connected
    /\ LET pg == msg.pong
           tbl == msg._ping_responses
       IN  CASE pg.pc = "idle" ->
                  /\ msg.frames < MaxFrames
                  /\ \E ping_id \in {"0", "1"} :
                        msg' = [msg EXCEPT !.pong = [pc |-> "lock", id |-> ping_id],
                                           !.frames = @ + 1,
                                           !.rcvd = Append(@, <<"__PONG__", ping_id>>)]
             [] pg.pc = "lock" ->
                  /\ _ping_lock_acquire(msg, "rx")
                  /\ msg' = [msg EXCEPT !._ping_lock = "rx", !.pong.pc = "check"]
             [] pg.pc = "check" ->
                  IF pg.id \in tbl.keys
                  THEN msg' = [msg EXCEPT !.pong.pc = "set"]
                  ELSE msg' = [msg EXCEPT !._ping_lock = "free", !.pong.pc = "idle"]
             [] OTHER ->
                  /\ pg.pc = "set"
                  /\ msg' = [msg EXCEPT !._ping_responses =
                                            [keys |-> tbl.keys \cup {pg.id},
                                             times |-> {p \in tbl.times : p[1] # pg.id}
                                                          \cup {<<pg.id, msg.clock>>}],
                                        !._ping_lock = "free",
                                        !.pong.pc = "idle"]
    /\ UNCHANGED <<variant, io, self, crypto, known_hosts_file, hosts_data, ui_hosts_data,
                   sock, rem, pc, local, hs_result, renewal>>

\* A session in which the caller pings and the peer sends __PONG__s of its
\* own choosing, the two threads taking their statements in any order.
PingLockNext == PingPeerStep \/ _handle_ping_pong \/ ClockTick

PingLockSpec == MessageInit /\ [][PingLockNext]_vars

\* The same session with pings in both directions and a clock.
PingNext ==
    \/ _receive_messages(PingPayloads)
    \/ ping_peer
    \/ ping_peer_returns
    \/ ClockTick

PingSpec == MessageInit /\ [][PingNext]_vars

\* ------------------------------------------------------------- claims
\* C1: while a session is up (connected), an inbound connection that the
\* accept loop takes from the listen queue is closed without a handshake, and
\* connected, peer_socket, _peer_connection_details and _message_count stay
\* as they were.
C1_RejectWhileConnected ==
    [][\A c \in Conns :
          (/\ self.connected
           /\ sock[c].st = "backlog"
           /\ sock'[c].st # "backlog"
           /\ self'.socket = self.socket)
          => /\ sock'[c].st = "rejected"
             /\ pc'[ACC] = "accept"
             /\ self'.connected
             /\ self'.peer_socket = self.peer_socket
             /\ self'._peer_connection_details = self._peer_connection_details
             /\ self'._message_count = self._message_count]_vars

\* C1 witness: a session with a counted message is up and an inbound
\* connection has been rejected.
C1_Witness ==
    /\ self.connected
    /\ self.peer_socket # 0
    /\ self._message_count > 0
    /\ \E c \in Conns : sock[c].st = "rejected"

\* C2: a handshake returns True (and connected becomes true) only if the
\* fingerprint of the public key received from the peer was in the trust
\* store at the time of the handshake.
C2_AcceptedOnlyIfTrusted == hs_result.ok => hs_result.in_store

\* C2 witness: a handshake returned True for a peer whose fingerprint the
\* trust store held.
C2_Witness == hs_result.ok /\ hs_result.in_store /\ self.connected

\* C3: a handshake returns True only when verify_signature accepted the
\* peer's signature, made with the private key of the public key it
\* presented, over this side's own challenge; so the peer owns the key whose
\* fingerprint the handshake saw.
C3_AcceptedOnlyIfVerified ==
    hs_result.ok => /\ hs_result.verified
                    /\ Fingerprint(SigningKey(hs_result.peer)) = hs_result.fp

\* C3 witness: a peer presenting a trusted key it does not own was turned
\* down, the session flag staying false.
C3_Witness ==
    /\ hs_result.peer = "mallory"
    /\ hs_result.in_store
    /\ ~hs_result.ok
    /\ ~self.connected

\* The handshake on connection c is under way between the instance and the
\* peer alice, each end alive, and alice's fingerprint is in known_hosts.json
\* and in the entries the connection's KnownHostsManager loaded.
HandshakeUnderWay(c) ==
    /\ \E t \in {UI, ACC} : pc[t] \in HsPcs /\ local[t].sk = c
    /\ sock[c].st = "open"
    /\ rem[c].id = "alice" /\ rem[c].st = "live"
    /\ "FA" \in get_all_fingerprints(known_hosts_file.hosts)
    /\ "FA" \in get_all_fingerprints(hosts_data)

\* Both ends of connection c wait for a frame and none is on its way.
BothBlocked(c) ==
    /\ HandshakeUnderWay(c)
    /\ rem[c].pc # "est"
    /\ sock[c].inb = <<>> /\ sock[c].outb = <<>>

\* C4: when an initiator and a responder that trust each other's fingerprint
\* run the handshake against each other over a reliable stream, the two are
\* never both blocked in a receive, and the handshake ends with success on
\* both sides.
C4_HandshakeCompletes ==
    /\ [](\A c \in Conns : ~BothBlocked(c))
    /\ \A c \in Conns :
          HandshakeUnderWay(c) ~> (self.connected /\ self.peer_socket = c /\ rem[c].pc = "est")

\* C4 witness: a handshake between the instance and a trusted peer has ended
\* with success on both sides.
C4_Witness ==
    /\ self.connected
    /\ hs_result.ok /\ hs_result.peer = "alice" /\ hs_result.in_store
    /\ \E c \in Conns : self.peer_socket = c /\ rem[c].pc = "est"

\* C5: when the receive loop of the current session ends (the peer closed the
\* stream, a socket error, a frame that does not decrypt), the session is torn
\* down: connected becomes false and the peer socket is closed, so that the
\* accept loop takes the next inbound connection.
C5_LoopEndTearsDown ==
    [][\A t \in RxThreads :
          (/\ pc[t] = "recv"
           /\ pc'[t] = "done"
           /\ local[t].sk # 0
           /\ self.peer_socket = local[t].sk)
          => /\ ~self'.connected
             /\ self'.peer_socket = 0
             /\ sock'[local[t].sk].st # "open"]_vars

\* C5 witness: with no stop and no renewal, the receive loop of a session
\* has ended and the session is gone.
C5_Witness ==
    /\ variant = "legacy"
    /\ \E t \in RxThreads : pc[t] = "done"
    /\ hs_result.ok
    /\ ~self._stop_flag
    /\ renewal.st = "none"
    /\ ~self.connected
    /\ self.peer_socket = 0
    /\ \A c \in Conns : sock[c].st # "open"

\* The legacy reconnection threads that have been started and have not come
\* to the end of _trigger_reconnection.
AttemptsInFlight == {k \in Trigs : pc[Trig(k)] \notin {"none", "done"}}

\* C6: once a renewal threshold has started a teardown-and-redial attempt,
\* no second attempt runs beside it, and _reconnect_in_progress stays set
\* until the attempt has come to its end.
C6_OneRenewalAtATime ==
    /\ Cardinality(AttemptsInFlight) <= 1
    /\ (AttemptsInFlight # {} \/ renewal.st = "running") => self._reconnect_in_progress

\* C6 witness: the renewal monitor has met a threshold, has set the flag and
\* has started the reconnection thread.
C6_Witness ==
    /\ \E k \in Trigs : pc[Trig(k)] = "start"
    /\ \E t \in MonThreads : pc[t] = "sleep"
    /\ self._reconnect_in_progress
    /\ self.connected
    /\ _should_renew_connection(variant, self)

\* C7: a renewal that has come to its end has, on the side that dialed, made
\* a connect attempt to the address of the session it tore down, through
\* SOCKS5 when that is an onion address; on the side that accepted it has
\* made no dial.
C7_RenewalRedials ==
    renewal.st = "done" =>
        IF renewal.server
        THEN renewal.dialed = NoAddr
        ELSE renewal.addr # NoAddr =>
                /\ renewal.dialed = renewal.addr
                /\ _is_onion_address(renewal.addr) => renewal.socks

\* C7 witness: the renewal of a session this side dialed has torn it down
\* and dialed the same address again.
C7_Witness ==
    /\ renewal.st = "done"
    /\ ~renewal.server
    /\ renewal.addr = "ip1"
    /\ renewal.dialed = "ip1"
    /\ self._peer_connection_details = "ip1"

\* C8: when the last handshake of an identity was refused for a fingerprint
\* the trust store did not hold, and known_hosts.json has since been given
\* that fingerprint (/addHost), the next handshake of the same identity is
\* not refused by the trust check.
C8_AcceptedAfterAddHost ==
    [][\A t \in Threads :
          (/\ pc[t] \in HsPcs
           /\ pc'[t] \notin HsPcs
           /\ hs_result.tofu = "refused"
           /\ ~hs_result.in_store
           /\ hs_result.fp \in get_all_fingerprints(known_hosts_file.hosts)
           /\ hs_result'.peer = hs_result.peer
           /\ hs_result'.fp = hs_result.fp)
          => hs_result'.tofu # "refused"]_vars

\* C8 witness: a peer whose fingerprint only /addHost can have put into the
\* trust store has been accepted.
C8_Witness ==
    /\ variant = "legacy"
    /\ hs_result.ok
    /\ hs_result.peer = "bob"
    /\ hs_result.in_store
    /\ <<"ip1", "FB">> \in known_hosts_file.hosts
    /\ self.connected

\* C9: the crypto manager holds a session key only while a session is up:
\* none before the handshake has succeeded, none after a teardown.
C9_SessionKeyOnlyWhileConnected ==
    crypto.session_key # NoSession => self.connected

\* C9 witness: a session is up under the key derived with its peer.
C9_Witness ==
    /\ self.connected
    /\ self.peer_socket # 0
    /\ crypto.peer_public_key = "KA"
    /\ crypto.session_key = _derive_session_key(LocalKey, "KA")

\* C10: a handshake whose peer stops sending does not block forever: it
\* returns; and when it returns failure the peer socket is closed and the
\* accept loop is back at accept().
C10_HandshakeEnds ==
    /\ \A t \in {UI, ACC} : (pc[t] \in HsPcs) ~> (pc[t] \notin HsPcs)
    /\ [][\A t \in {UI, ACC} :
             (pc[t] \in HsPcs /\ pc'[t] \notin HsPcs /\ ~hs_result'.ok)
             => /\ self'.peer_socket = 0
                /\ \A c \in Conns : sock'[c].st # "open"
                /\ t = ACC => pc'[ACC] = "accept"]_vars

\* C10 witness: the handshake of a dialer whose peer never answered has
\* returned failure, and the socket is closed.
C10_Witness ==
    /\ variant = "legacy"
    /\ hs_result.role = "i" /\ ~hs_result.ok
    /\ hs_result.peer = "alice" /\ hs_result.fp = "None"
    /\ pc[UI] = "idle"
    /\ self.peer_socket = 0 /\ ~self.connected
    /\ \A c \in Conns : sock[c].st # "open"

\* C11: stop() of the generations that have close_server (mono, mixin) ends
\* the peer session only: afterwards connected is false, peer_socket is None
\* and the socket it was is closed, while _server_running, the listening
\* socket, the stop flag, the connections waiting in the listen queue and the
\* accept loop are as before, so that the accept loop does not reject the
\* next peer as already connected.
C11_StopKeepsServer ==
    [][(variant # "legacy" /\ Stop)
       => /\ ~self'.connected
          /\ self'.peer_socket = 0
          /\ self.peer_socket # 0 => sock'[self.peer_socket].st # "open"
          /\ self'._server_running = self._server_running
          /\ self'.socket = self.socket
          /\ self'._stop_flag = self._stop_flag
          /\ pc'[ACC] = pc[ACC]
          /\ \A c \in Conns : sock[c].st = "backlog" => sock'[c] = sock[c]
          /\ ~AlreadyConnected(self')]_vars

\* C11 witness: a session that was established has been ended by stop() (no
\* renewal ran, no receive loop ended) and the server listens, its accept
\* loop waiting in accept().
C11_Witness ==
    /\ variant = "mono"
    /\ hs_result.ok
    /\ ~self.connected /\ self.peer_socket = 0
    /\ renewal.st = "none"
    /\ \A t \in RxThreads : pc[t] # "done"
    /\ self._server_running /\ self.socket = "open"
    /\ pc[ACC] = "accept"

\* close_server() has been called: the server was started once
\* (_accept_thread is set) and _server_running is false again, which in mono
\* and mixin only close_server brings about.
ServerClosed == variant # "legacy" /\ self._accept_thread /\ ~self._server_running

\* C12: close_server() closes the listening socket and clears
\* _server_running, and from then on the instance is terminal: it takes no
\* inbound connection and no operation makes it listen again.
C12_CloseServerTerminal ==
    [][/\ CloseServer => (ServerClosed' /\ self'.socket = "None")
       /\ ServerClosed =>
             /\ ~self'._server_running
             /\ self'.socket = "None"
             /\ \A c \in Conns : sock[c].st = "backlog" => sock'[c].st # "open"]_vars

\* C12 witness: close_server() has run and the accept loop has left its
\* while.
C12_Witness ==
    /\ ServerClosed
    /\ self.socket = "None"
    /\ pc[ACC] = "done"

\* C13: start_server() called while the server is listening changes nothing:
\* the listening socket, the accept loop, the stop flag, the server-mode flag
\* and the session are as before.
C13_StartServerIdempotent ==
    [][(StartServer /\ self._server_running) => UNCHANGED vars]_vars

\* C13 witness: the server listens while a session that this side dialed is
\* up, so that a start_server() that ran again would be seen in
\* _is_server_mode.
C13_Witness ==
    /\ self._server_running /\ self.socket = "open"
    /\ self.connected
    /\ ~self._is_server_mode
    /\ start_server(self) = self
    /\ start_server_always(self) # self

\* C14: connect_to_peer called while connected, or with a string that is no
\* IP address, leaves everything as it was: no teardown, no socket,
\* _peer_connection_details and _is_server_mode unchanged.
C14_RefusedConnectChangesNothing ==
    [][\A addr \in PeerAddrs :
          (ConnectToPeerAt(addr) /\ (self.connected \/ ~_validate_ip_address(addr)))
          => UNCHANGED vars]_vars

\* C14 witness: a session this side accepted is up and the user is at the
\* prompt; a connect_to_peer that went on would tear the session down and
\* clear _is_server_mode.
C14_Witness ==
    /\ pc[UI] = "idle"
    /\ self.connected /\ self.peer_socket # 0
    /\ self._is_server_mode
    /\ Refuses(self, "ip1", FALSE)
    /\ ~_validate_ip_address("bad_ip")

\* The user's connect_to_peer / connect_to_onion_peer, called on an instance
\* that was not connected, returns False in this step: connect() raised, or
\* the handshake returned False.
ConnectReturnsFalse ==
    /\ pc'[UI] = "idle"
    /\ \/ pc[UI] = "dial"
       \/ pc[UI] \in HsPcs /\ ~hs_result'.ok

\* C15: connect_to_peer and connect_to_onion_peer end every failure with the
\* result False, and when they return False on an instance that was not
\* connected, connected is false and peer_socket is None.
C15_FailedConnectLeavesNoSession ==
    [][ConnectReturnsFalse => (~self'.connected /\ self'.peer_socket = 0)]_vars

\* C15 witness: the handshake of a dialed peer that does not own the key it
\* presents has failed, connect_to_peer has returned, and no session and no
\* socket is left.
C15_Witness ==
    /\ pc[UI] = "idle"
    /\ hs_result.role = "i" /\ ~hs_result.ok /\ hs_result.peer = "mallory"
    /\ ~self.connected /\ self.peer_socket = 0
    /\ \A c \in Conns : sock[c].st # "open"

\* The message __DISCONNECT__ under the key of the session on socket c.
DisconnectFrame(c) ==
    encrypt_message(_derive_session_key(SigningKey(rem[c].id), LocalKey), "__DISCONNECT__")

\* C16: in the generations whose protocol has __DISCONNECT__ (mono, mixin),
\* when the receive loop decrypts that payload the peer session is stopped:
\* connected false, peer socket closed, the loop ended; the payload is not
\* counted as a chat message; _server_running, the listening socket and the
\* accept loop are as before, so that the next inbound connection is not
\* rejected as already connected.
C16_DisconnectStopsSession ==
    [][\A t \in RxThreads : \A c \in Conns :
          (/\ variant # "legacy"
           /\ local[t].sk = c
           /\ Decrypts(crypto, _receive_raw(variant, _send_raw(variant, DisconnectFrame(c))).data)
           /\ RxRecvSent(t, DisconnectFrame(c)))
          => /\ ~self'.connected
             /\ self'.peer_socket = 0
             /\ sock'[c].st # "open"
             /\ pc'[t] = "done"
             /\ self'._message_count = self._message_count
             /\ self'._server_running = self._server_running
             /\ self'.socket = self.socket
             /\ pc'[ACC] = pc[ACC]
             /\ ~AlreadyConnected(self')]_vars

\* C16 witness: a receive loop has ended by calling self.stop(), which in
\* this generation it does on __DISCONNECT__ only; the session is stopped
\* with nothing counted and no renewal having run, and the server listens.
C16_Witness ==
    /\ variant = "mono"
    /\ hs_result.ok
    /\ \E c \in Conns : pc[Rx(c)] = "done" /\ local[Rx(c)].stopped /\ sock[c].st = "closed"
    /\ ~self.connected /\ self.peer_socket = 0
    /\ self._message_count = 0
    /\ renewal.st = "none"
    /\ self._server_running /\ self.socket = "open" /\ pc[ACC] = "accept"

\* C17: whenever _receive_raw returns from a frame that _send_raw(p) wrote,
\* without having met the end of the stream, what it returns is exactly the
\* bytes p, however the stream was cut into writes and reads.
C17_FrameRoundTrip ==
    (io.rx = "done" /\ io.out.kind # "none" /\ ~io.eof)
    => io.out = [kind |-> "bytes", data |-> io.p]

\* C17 witness: a payload of the greatest length, with a ':' in front,
\* came back whole and nothing is left in the stream.
C17_Witness ==
    /\ variant = "mono"
    /\ io.rx = "done" /\ ~io.eof /\ ~io.closed
    /\ Len(io.p) = MaxPayload /\ io.p[1] = Colon
    /\ io.out = [kind |-> "bytes", data |-> io.p]
    /\ io.wire = <<>>

\* How each generation tells its caller that the stream is closed: legacy
\* raises, mono and mixin return b''.
ReportedClosed(v, out) ==
    IF v = "legacy" THEN out.kind = "raise" ELSE out = [kind |-> "bytes", data |-> <<>>]

\* The frame under way has length 0.
ZeroLengthFrame == variant # "mixin" /\ io.p = <<>>

\* C18: when _receive_raw has returned, a zero-byte read in the length phase
\* or in the data phase was reported as connection closed, and a frame of
\* length 0 was returned as the empty payload, not reported as closed, and
\* the receive loop goes on with it.
C18_EmptyFrameIsNotClosed ==
    (io.rx = "done" /\ io.out.kind # "none")
    => /\ io.eof => ReportedClosed(variant, io.out)
       /\ (~io.eof /\ ZeroLengthFrame)
             => /\ io.out = [kind |-> "bytes", data |-> <<>>]
                /\ ~ReportedClosed(variant, io.out)
                /\ LoopContinues(variant, io.out)

\* C18 witness: the stream was closed in the middle of the data of a frame
\* and _receive_raw returned b'', as it does for a frame of length 0.
C18_Witness ==
    /\ variant = "mono"
    /\ io.rx = "done" /\ io.eof
    /\ io.need > 0 /\ Len(io.buf) < io.need /\ io.buf # <<>>
    /\ io.out = _receive_raw_returns(variant, <<>>)

\* C19: a send_message call made while connected is false or peer_socket is
\* None changes nothing: no socket is written to, _message_count stays, and
\* the call returns to the caller without raising.
C19_SendWhileNotConnectedIsNoOp ==
    [][(SendMessage /\ (~self.connected \/ self.peer_socket = 0)) => UNCHANGED vars]_vars

\* C19 witness: send_message was called on a listening instance that was
\* not connected and on which no reconnection was flagged, and the call has
\* left the caller with an exception; nothing was written or counted.
C19_Witness ==
    /\ pc[UI] = "raised"
    /\ ~self.connected /\ ~self._reconnect_in_progress
    /\ self._server_running
    /\ self._message_count = 0
    /\ \A c \in Conns : Traffic(sock, c) = 0

\* C20: while a session is up on a socket, _message_count is the number of
\* chat messages send_message has written to that socket plus the number the
\* receive loop has delivered from it.
C20_CountIsSentPlusReceived ==
    \A c \in Conns :
        (self.connected /\ self.peer_socket = c /\ sock[c].st = "open")
        => self._message_count = sock[c].sent + sock[c].rcvd

\* C20 witness: a session on which one chat message was received, and
\* counted.
C20_Witness ==
    \E c \in Conns :
        /\ self.connected /\ self.peer_socket = c /\ sock[c].st = "open"
        /\ sock[c].sent = 0 /\ sock[c].rcvd = 1
        /\ self._message_count = 1
        /\ variant = "mono"

\* C21: a decrypted payload that is a control message (__PING__<id>,
\* __PONG__<id>, __DISCONNECT__, a file-transfer token) is never handed to
\* message_callback as a chat message and never changes _message_count; every
\* other payload is handed on exactly once, in the order received: the chat
\* messages handed on are the payloads read that are no control messages, in
\* their order, and the counter is their number.
C21_ControlNeverChat ==
    LET text(m) ==
            /\ Head(m) \notin {"__PING__", "__PONG__", "__FILE_TRANSFER__",
                               "__FILE_TRANSFER_ACCEPTED__", "__FILE_TRANSFER_DECLINED__",
                               "__FILE_ACCEPT__", "__FILE_END__"}
            /\ m # <<"__DISCONNECT__">>
    IN  /\ msg.chat = SelectSeq(msg.rcvd, text)
        /\ msg._message_count = Len(msg.chat)

\* A ping and a text have been read, and the text was handed on.
C21_Witness ==
    /\ \E k \in 1..Len(msg.rcvd) : msg.rcvd[k] = <<"__PING__", "0">>
    /\ msg.chat = <<(<<"x">>)>>
    /\ msg._message_count = 1

\* C22: every __PING__<id> read is answered with exactly one __PONG__<id> of
\* the same id (the pongs sent are the pings read, in order); ping_peer
\* returns a response time only when a __PONG__ of its own id was read; and
\* no two pings sent share an id, so that no pong counts for another ping.
C22_PingPongMatch ==
    LET ping(m) == Head(m) = "__PING__"
        pong(m) == Head(m) = "__PONG__"
        asked == SelectSeq(msg.rcvd, ping)
        answers == SelectSeq(msg.sent, pong)
    IN  /\ Len(answers) <= Len(asked)
        /\ \A k \in 1..Len(answers) : Tail(answers[k]) = Tail(asked[k])
        /\ msg.loop = "run" => Len(answers) = Len(asked)
        /\ \A k \in 1..Len(msg.results) :
               msg.results[k].ok =>
                   \E j \in 1..Len(msg.rcvd) :
                       msg.rcvd[j] = <<"__PONG__", msg.results[k].id>>
        /\ \A i, j \in 1..Len(msg.pings) : i # j => msg.pings[i] # msg.pings[j]

\* A ping of the peer has been answered, and a ping_peer call has returned a
\* response time.
C22_Witness ==
    /\ \E k \in 1..Len(msg.sent) : Head(msg.sent[k]) = "__PONG__"
    /\ \E k \in 1..Len(msg.results) : msg.results[k].ok

C24_DeclineDiscardsTransfer ==
    [][/\ (handle_file_decline_command /\ msg._file_receive_info.file_obj # 0)
           => ~msg'.disk[msg._file_receive_info.name].exists
       /\ msg'.rcvd = Append(msg.rcvd, <<"__FILE_TRANSFER_DECLINED__">>)
           => ~msg'.FILE_TRANSFER_PROCEDURE]_vars

\* The caller has declined while an announced file was pending.
C24_Witness ==
    /\ msg.declined
    /\ msg._file_receive_info.file_obj # 0
    /\ \E k \in 1..Len(msg.sent) : msg.sent[k] = <<"__FILE_TRANSFER_DECLINED__">>

C26_AcceptedFileIsStreamed ==
    [][(/\ msg.FILE_TRANSFER_PROCEDURE
        /\ msg'.rcvd = Append(msg.rcvd, <<"__FILE_TRANSFER_ACCEPTED__">>))
          => msg'.sent # msg.sent]_vars

\* The sender has announced its file and has read the acceptance.
C26_Witness ==
    /\ msg.FILE_TRANSFER_PROCEDURE
    /\ msg.sent # <<>>
    /\ msg.sent[1] = <<"__FILE_TRANSFER__", "a", "2">>
    /\ msg.rcvd # <<>>
    /\ msg.rcvd[Len(msg.rcvd)] = <<"__FILE_TRANSFER_ACCEPTED__">>

C29_TofuIgnoresAddress ==
    \A key \in ValidKeys : \A a1, a2 \in {"ip1", "ip2"} :
        LET cr == [crypto EXCEPT !.peer_public_key = key]
        IN  _verify_tofu_identity(variant, cr, known_hosts_file, hosts_data, a1)
              = _verify_tofu_identity(variant, cr, known_hosts_file, hosts_data, a2)

\* In the mono generation a handshake from ip1 was refused by the TOFU
\* check: the store holds another fingerprint for ip1, and none for ip2.
C29_Witness ==
    /\ variant = "mono"
    /\ hs_result.tofu = "refused"
    /\ get_host_fingerprint(hosts_data, "ip1") # "None"
    /\ get_host_fingerprint(hosts_data, "ip2") = "None"

\* C30: what connect_to_onion_peer does and the state it leaves do not
\* depend on the fingerprint the caller hands it: every step the call takes
\* with one fingerprint it takes with any other, and the trust decision that
\* follows is taken on the key received in the handshake.
C30_OnionConnectIgnoresFingerprint ==
    [][\A addr \in OnionAddrs : \A f1, f2 \in {"FA", "FB"} :
           ConnectToOnionPeerAt(addr, f1) => ConnectToOnionPeerAt(addr, f2)]_vars

\* connect_to_onion_peer has dialed the onion address, run its handshake and
\* returned.
C30_Witness ==
    /\ pc[UI] = "idle"
    /\ self._peer_connection_details \in OnionAddrs
    /\ hs_result.role = "i"
    /\ hs_result.peer # "none"

\* C31: when _verify_tofu_identity gives its answer while there is no
\* known_hosts.json, the step leaves an empty known_hosts.json behind and
\* the answer is a refusal.
C31_MissingStoreRefuses ==
    [][\A t \in {UI, ACC} :
          (/\ pc[t] \in HsPcs
           /\ local[t].tofu = "none"
           /\ ~known_hosts_file.exists
           /\ \/ pc'[t] \in HsPcs /\ local'[t].tofu # "none"
              \/ pc'[t] \notin HsPcs /\ hs_result' # hs_result /\ hs_result'.tofu # "none")
          => /\ known_hosts_file' = [exists |-> TRUE, hosts |-> {}]
             /\ local'[t].tofu # "passed"
             /\ pc'[t] \notin HsPcs => hs_result'.tofu = "refused"]_vars

\* C32: in the mono and mixin generations _should_renew_connection answers
\* True exactly when _last_renewal_time is set and either _message_count has
\* reached RENEW_AFTER_MESSAGES or RENEW_AFTER_MINUTES have passed since
\* _last_renewal_time; with no _last_renewal_time (no session was ever
\* established) it answers False whatever the count.  (legacy has no such
\* method: its _renewal_monitor makes the two tests itself.)
C32_ShouldRenewExactly ==
    variant # "legacy" =>
      \A n \in {0, RENEW_AFTER_MESSAGES - 1, RENEW_AFTER_MESSAGES, RENEW_AFTER_MESSAGES + 1} :
        \A tm \in {"None", "fresh", "expired"} :
          LET s == [self EXCEPT !._message_count = n, !._last_renewal_time = tm]
              timestamp == tm # "None"
              minutes_up == tm = "expired"
          IN  /\ _should_renew_connection(variant, s)
                    <=> (timestamp /\ (n >= RENEW_AFTER_MESSAGES \/ minutes_up))
              /\ ~timestamp => ~_should_renew_connection(variant, s)

\* The renewal monitor of a session finds that the session has to be renewed.
C32_Witness ==
    /\ variant # "legacy"
    /\ self.connected
    /\ \E c \in Conns : pc[Mon(c)] = "sleep" /\ self._renewal_thread = c
    /\ _should_renew_connection(variant, self)

C34_EncryptDecryptRoundTrip ==
    crypto.peer_public_key \in ValidKeys =>
      LET A == crypto.session_key
          B == _derive_session_key(crypto.peer_public_key, LocalKey)
          nonces == {[i \in 1..12 |-> n] : n \in {0, 255}}
          messages == {<<>>, <<"a">>, <<"e'">>, <<"a", "e'">>, <<"e'", "a">>}
          buffers == {<<>>, <<0>>, <<195>>, <<97, 169>>, <<255, 0, 97>>}
          pairs == {<<A, B>>, <<B, A>>}
      IN  \A k \in pairs : \A nonce \in nonces :
            /\ \A m \in messages :
                  LET e == encrypt_message_str(k[1], nonce, m)
                  IN  /\ ~e.raised
                      /\ decrypt_message(k[2], e.out) = [raised |-> FALSE, out |-> m]
            /\ \A b \in buffers :
                  LET e == encrypt_bytes(k[1], nonce, b)
                  IN  /\ ~e.raised
                      /\ decrypt_bytes(k[2], e.out) = [raised |-> FALSE, out |-> b]

\* A session with bob is up: the handshake has set his key here, and he
\* holds the local one.
C34_Witness ==
    /\ self.connected
    /\ crypto.peer_public_key = "KB"
    /\ crypto.session_key = _derive_session_key(LocalKey, "KB")
    /\ \E c \in Conns : rem[c].id = "bob" /\ rem[c].pc = "est"

\* C35: while the CryptoManager holds no session key, encrypt_message,
\* decrypt_message, encrypt_bytes and decrypt_bytes raise on every input and
\* return nothing: on any message or buffer to encrypt, and on any bytes to
\* decrypt, be they a ciphertext of some session or not.
C35_NoSessionKeyRaises ==
    crypto.session_key = NoSession =>
      LET nonce == [i \in 1..12 |-> 0]
          messages == {<<>>, <<"a">>, <<"a", "e'">>}
          buffers == {<<>>, <<0>>, <<97, 169>>}
          received ==
              {<<>>, <<0>>, nonce}
                \cup {encrypt_bytes(_derive_session_key(LocalKey, k), nonce, b).out :
                         k \in ValidKeys, b \in buffers}
          failed == [raised |-> TRUE, out |-> <<>>]
      IN  /\ \A m \in messages : encrypt_message_str(crypto.session_key, nonce, m) = failed
          /\ \A b \in buffers : encrypt_bytes(crypto.session_key, nonce, b) = failed
          /\ \A e \in received : /\ decrypt_message(crypto.session_key, e) = failed
                                  /\ decrypt_bytes(crypto.session_key, e) = failed

\* A handshake has come to its end, refused or broken off, before any key
\* of a peer was set: the CryptoManager still has no session key.
C35_Witness ==
    /\ crypto.session_key = NoSession
    /\ crypto.peer_public_key = NoKey
    /\ hs_result # NoHsResult
    /\ encrypt_bytes(crypto.session_key, [i \in 1..12 |-> 0], <<0>>).raised

\* C36: a handshake sends its challenge and its signature only once
\* _verify_tofu_identity has accepted the peer: in every step that writes a
\* frame carrying a challenge or a signature to a socket, the handshake
\* running on that socket has passed the TOFU check, before the step or in
\* it; a refused or unreached check means that none was written.
C36_TofuBeforeSignatures ==
    [][\A c \in Conns :
          LET old == Len(sock[c].outb)
              new == Len(sock'[c].outb)
              passed == \E t \in Threads :
                           \/ local[t].sk = c /\ local[t].tofu = "passed"
                           \/ local'[t].sk = c /\ local'[t].tofu = "passed"
                           \/ /\ pc[t] \in HsPcs /\ local[t].sk = c
                              /\ pc'[t] \notin HsPcs
                              /\ hs_result'.tofu = "passed"
          IN  (/\ new > old
               /\ \E i \in (old + 1)..new :
                     sock'[c].outb[i].chal # NoChal \/ sock'[c].outb[i].sig # NoSig)
              => passed]_vars

\* The legacy generation has signed a peer's challenge after its TOFU check
\* accepted the peer.
C36_Witness ==
    /\ variant = "legacy"
    /\ \E t \in Threads : \E c \in Conns :
          /\ pc[t] = "hs3" /\ local[t].sk = c /\ local[t].tofu = "passed"
          /\ local[t].role = "i"
          /\ sock[c].st = "open"
          /\ \E i \in 1..Len(sock[c].outb) : sock[c].outb[i].sig # NoSig

\* C37: while the attempt of one of the two threads that establish sessions
\* (the caller in connect_to_peer, the accept loop) is under way with
\* connected still False and peer_socket its socket, a step in which the
\* other thread starts an attempt of its own leaves that socket as it is and
\* leaves it in peer_socket.
C37_AttemptsDoNotCollide ==
    [][\A t \in {UI, ACC} :
          LET u == IF t = UI THEN ACC ELSE UI
              c == local[t].sk
              under_way == {"dial"} \cup HsPcs
          IN  (/\ pc[t] \in under_way
               /\ ~self.connected
               /\ c # 0 /\ self.peer_socket = c
               /\ pc'[t] = pc[t] /\ local'[t] = local[t]
               /\ pc[u] \notin under_way /\ pc'[u] \in under_way)
              => /\ self'.peer_socket = c
                 /\ sock'[c].st = sock[c].st]_vars

\* The caller's handshake and the accept loop's are under way at once.
C37_Witness ==
    /\ pc[UI] \in HsPcs
    /\ pc[ACC] \in HsPcs
    /\ ~self.connected

\* C38: at any time at most one receive loop and at most one renewal
\* monitor of the instance have been started and have not ended.
C38_OneLoopOneMonitor ==
    /\ Cardinality({t \in RxThreads : pc[t] \notin {"none", "done"}}) <= 1
    /\ Cardinality({t \in MonThreads : pc[t] \notin {"none", "done"}}) <= 1

\* The receive loop started for the first session has delivered a message
\* of the second one.
C38_Witness ==
    /\ self.connected
    /\ self.peer_socket = 2
    /\ pc[Rx(1)] = "recv" /\ local[Rx(1)].sk = 2
    /\ sock[2].rcvd = 1

\* C39: when two threads have each run a _send_raw on the peer socket and
\* every send call has written its whole buffer, the bytes on the wire are
\* the frame of the one followed by the frame of the other: length prefix
\* and data of a frame are never parted by bytes of the other frame.
C39_FramesNotInterleaved ==
    LET RECURSIVE flat(_)
        flat(bufs) == IF bufs = <<>> THEN <<>> ELSE Head(bufs) \o flat(Tail(bufs))
        f1 == flat(_send_raw_buffers(variant, io.p))
        f2 == flat(_send_raw_buffers(variant, io.p2))
    IN  (/\ io.tx = <<>> /\ io.tx2 = <<>>
         /\ Len(io.wire) = Len(f1) + Len(f2))
        => io.wire \in {f1 \o f2, f2 \o f1}

\* Both threads have written their frames whole, one after the other.
C39_Witness ==
    /\ variant = "mixin"
    /\ io.p = <<65>> /\ io.p2 = <<58, 58>>
    /\ io.tx = <<>> /\ io.tx2 = <<>>
    /\ io.wire = <<0, 0, 0, 6, 71, 69, 78, 58, 58, 58, 0, 0, 0, 5, 71, 69, 78, 58, 65>>

\* C40: whatever the order in which ping_peer and the __PONG__ handling take
\* their statements, a thread is inside a block that reads or writes
\* _ping_responses only while it holds _ping_lock; the handling of a
\* __PONG__ never adds a key to _ping_responses; and whenever no ping_peer
\* is under way (none was called yet, or the last one has returned, with a
\* latency or by timeout) _ping_responses holds no entry.
C40_PingTableUnderLock ==
    /\ [](/\ msg.ping.pc \in {"create_locked", "poll_locked", "final_locked"}
              => msg._ping_lock = "caller"
          /\ msg.pong.pc \in {"check", "set"} => msg._ping_lock = "rx"
          /\ msg.ping.pc = "idle"
              => msg._ping_responses = [keys |-> {}, times |-> {}])
    /\ [][msg'.pong # msg.pong
            => msg'._ping_responses.keys \subseteq msg._ping_responses.keys]_vars

\* ping_peer has returned a latency, and a __PONG__ that came with no ping
\* pending has been handled as well.
C40_Witness ==
    /\ msg.ping.pc = "idle"
    /\ msg.pong.pc = "idle"
    /\ msg.frames = 2
    /\ Len(msg.results) = 1
    /\ msg.results[1].ok
    /\ msg._ping_lock = "free"
====
